---- MODULE Spec2Model ----
(***************************************************************************)
(* Void Drifter: the per-frame simulation core (entities, damage, the     *)
(* collision dispatch, waves, lives) as a state machine.                   *)
(*                                                                         *)
(* Objects are records held in a heap `obj` (id -> record); the entity     *)
(* list `entities` is a sequence of ids, so that this.player, a            *)
(* projectile's owner and an enemy's target alias the listed object as     *)
(* they do in JavaScript.                                                  *)
(*                                                                         *)
(* Discrete state (health, shield, flags, timers, score, lives, wave, the  *)
(* list and its order) is modelled exactly.  Float geometry is abstracted: *)
(*   - a position is kept as `atCentre` (x = width/2 and y = height/2),    *)
(*     a velocity as `moving` (velocity # (0,0)), the force accumulator as *)
(*     `pushed` (force # (0,0));                                           *)
(*   - the outcome of every distance test and of every Math.random call    *)
(*     is an input of the frame, drawn by \E (record `env`).               *)
(* Wall-clock stamps (Date.now()) are kept as the time elapsed since the   *)
(* stamp, saturated at the threshold the code compares it with.            *)
(***************************************************************************)
EXTENDS Integers, Sequences, FiniteSets, TLC

VARIABLES
    state,        \* Game.state: "menu" | "playing" | "paused" | "gameover"
    score,        \* Game.score
    lives,        \* Game.lives
    wave,         \* Game.wave
    runStats,     \* Game.runStats: [scrap, crystals]
    playerData,   \* Game.playerData: [scrap, crystals]
    entities,     \* Game.entities: sequence of object ids
    obj,          \* the objects: id -> record
    player,       \* Game.player: an id, or 0 for null
    keys,         \* Game.keys: the set of keys currently held down
    loop,         \* "idle" (animationFrameId null) | "running" | "dead" (a frame threw)
    used,         \* what the behaviour has used of the model's bounds:
                  \* [frames, overlaps, exits, presses]
    hist          \* history of the run, read by the properties only

vars == <<state, score, lives, wave, runStats, playerData, entities, obj,
          player, keys, loop, used, hist>>

-----------------------------------------------------------------------------
(* Bounds of the model *)

MaxIds == 9          \* object ids 1..MaxIds
MaxOverlaps == 2     \* overlapping pairs per behaviour
MaxExits == 1        \* projectiles leaving the screen per behaviour
MaxFrames == 2       \* frame callbacks per behaviour
MaxPresses == 1      \* keydown events per behaviour
MaxShots == 2        \* projectiles in flight in a mid-run scene
MaxCalls == 4        \* method calls per behaviour of a method-level specification
FrameMs == 500       \* granularity of deltaTime
MaxFrameMult == 1    \* deltaTime ranges over FrameMs * (1..MaxFrameMult)
MaxLoot == 1         \* pickups dropped by one enemy

Ids == 1..MaxIds
DeltaTimes == {FrameMs * k : k \in 1..MaxFrameMult}

Min(a, b) == IF a <= b THEN a ELSE b
Max(a, b) == IF a >= b THEN a ELSE b

-----------------------------------------------------------------------------
(* Program constants *)

PlayerMaxHealth == 100
ShieldMax == 50
ShieldRegenRate == 10
ShieldRegenDelay == 2000
HitInvulnerability == 500
RespawnInvulnerability == 3000
HyperspaceInvulnerability == 1000
AbilityMaxCooldown == 3000
ContactDamage == 25
PlayerShotDamage == 25
PlayerShotLifetime == 3000
WeaponShotLifetime == 2000
StartLives == 3
BlasterFireRate == 200
ScoutWanderPeriod == 2000
PickupLifetime == 10000
HeatPerShot == 15
MaxHeat == 100
CooldownRate == 30

\* Asteroid.getSizeData
getSizeData(size) ==
    CASE size = "large"  -> [radius |-> 40, health |-> 100, score |-> 20]
      [] size = "medium" -> [radius |-> 25, health |-> 50,  score |-> 50]
      [] size = "small"  -> [radius |-> 15, health |-> 25,  score |-> 100]
      [] OTHER           -> [radius |-> 40, health |-> 100, score |-> 20]

\* ScoutSaucer / HunterDrone / MarauderFrigate constructor options
EnemyTypes == {"scout_saucer", "hunter_drone", "marauder_frigate"}

enemyData(kind) ==
    CASE kind = "hunter_drone" ->
            [health |-> 60, radius |-> 18, score |-> 300,
             fireRate |-> 1000, damage |-> 20, shots |-> 1]
      [] kind = "marauder_frigate" ->
            [health |-> 200, radius |-> 30, score |-> 800,
             fireRate |-> 2500, damage |-> 25, shots |-> 3]
      [] OTHER ->
            [health |-> 30, radius |-> 15, score |-> 150,
             fireRate |-> 1500, damage |-> 15, shots |-> 1]

-----------------------------------------------------------------------------
(* Objects *)

\* Entity.constructor: the fields every object carries
Entity(id, type, kind) ==
    [id |-> id, type |-> type, kind |-> kind, cls |-> "Entity", alive |-> TRUE,
     atCentre |-> FALSE, moving |-> FALSE, pushed |-> FALSE, radius |-> 0,
     hasHealth |-> FALSE, hp |-> 0, maxhp |-> 0, inv |-> FALSE, invT |-> 0,
     scoreValue |-> 0,
     shield |-> 0, sinceDamage |-> 0,
     hasWeapon |-> FALSE, fireRate |-> 0, sinceFired |-> 0,
     heated |-> FALSE, heat |-> 0, overheated |-> FALSE,
     cooldown |-> 0, thrust |-> FALSE, fire |-> FALSE, ability |-> FALSE,
     autoFire |-> FALSE,
     owner |-> 0, damage |-> 0, age |-> 0, lifetime |-> 0,
     target |-> 0, stateTimer |-> 0,
     destroyCalls |-> 0, scored |-> 0, collected |-> 0]

\* Entity.constructor, options.health: current = max, not invulnerable
WithHealth(e, max) ==
    [e EXCEPT !.hasHealth = TRUE, !.hp = max, !.maxhp = max,
              !.inv = FALSE, !.invT = 0]

\* Player.constructor: the ship with the weapon the constructor gives it
\* (lastFired = 0 and lastDamageTime = 0 lie further back than any threshold)
Player(id) ==
    [WithHealth(Entity(id, "player", "ship"), PlayerMaxHealth) EXCEPT
        !.cls = "Player", !.radius = 12,
        !.shield = ShieldMax, !.sinceDamage = ShieldRegenDelay + 1,
        !.hasWeapon = TRUE, !.fireRate = BlasterFireRate,
        !.sinceFired = BlasterFireRate,
        !.heated = TRUE, !.heat = 0, !.overheated = FALSE,
        !.cooldown = 0, !.autoFire = FALSE]

\* Asteroid.constructor: a random initial velocity of speed 20..60
Asteroid(id, size) ==
    [WithHealth(Entity(id, "asteroid", size), getSizeData(size).health) EXCEPT
        !.cls = "Asteroid", !.radius = getSizeData(size).radius,
        !.scoreValue = getSizeData(size).score, !.moving = TRUE]

\* Projectile.constructor: no health component, velocity = speed along the
\* rotation (plus half the owner's velocity), so it moves
Projectile(id, ownerId, damage, lifetime) ==
    [Entity(id, "projectile", "shot") EXCEPT
        !.cls = "Projectile", !.radius = 3, !.owner = ownerId,
        !.damage = damage, !.lifetime = lifetime, !.age = 0, !.moving = TRUE]

\* Enemy.constructor with the subclass's options; the weapon is a Blaster or
\* SpreadShot whose lastFired starts at 0
Enemy(id, kind) ==
    [WithHealth(Entity(id, "enemy", kind), enemyData(kind).health) EXCEPT
        !.cls = "Enemy", !.radius = enemyData(kind).radius,
        !.scoreValue = enemyData(kind).score,
        !.hasWeapon = TRUE, !.fireRate = enemyData(kind).fireRate,
        !.sinceFired = enemyData(kind).fireRate,
        !.damage = enemyData(kind).damage,
        !.target = 0, !.stateTimer = 0]

\* Pickup.constructor (cls "Pickup") and Resource.constructor (cls "Resource"):
\* no health, a random initial velocity of speed 50..100
Pickup(id, cls, kind) ==
    [Entity(id, "pickup", kind) EXCEPT
        !.cls = cls, !.radius = 10, !.lifetime = PickupLifetime, !.moving = TRUE]

-----------------------------------------------------------------------------
(* Entity methods.  A method that returns a value yields [e, ret]. *)

\* Entity.destroy (Asteroid.destroy and Enemy.destroy call it first)
destroy(e) == [e EXCEPT !.alive = FALSE, !.destroyCalls = @ + 1]

\* Entity.takeDamage
EntityTakeDamage(e, amount) ==
    IF ~e.hasHealth \/ e.inv
    THEN [e |-> e, ret |-> FALSE]
    ELSE IF e.hp - amount <= 0
         THEN [e |-> destroy([e EXCEPT !.hp = 0]), ret |-> TRUE]
         ELSE [e |-> [e EXCEPT !.hp = e.hp - amount, !.inv = TRUE,
                               !.invT = HitInvulnerability],
               ret |-> FALSE]

\* mutant of PlayerTakeDamage: the shield is drained and the health takes
\* the full amount all the same
PlayerTakeDamageInFull(e, amount) ==
    EntityTakeDamage([e EXCEPT !.shield = Max(0, e.shield - amount)], amount)

\* Player.takeDamage: the shield absorbs first
PlayerTakeDamage(e, amount) ==
    IF e.shield > 0
    THEN LET shieldDamage == Min(amount, e.shield)
             e1 == [e EXCEPT !.shield = e.shield - shieldDamage,
                             !.sinceDamage = 0]
         IN  IF amount - shieldDamage <= 0
             THEN [e |-> e1, ret |-> FALSE]
             ELSE EntityTakeDamage(e1, amount - shieldDamage)
    ELSE EntityTakeDamage(e, amount)

\* takeDamage as dispatched on the object's class
takeDamage(e, amount) ==
    IF e.cls = "Player" THEN PlayerTakeDamage(e, amount)
    ELSE EntityTakeDamage(e, amount)

\* Entity.heal
heal(e, amount) ==
    IF ~e.hasHealth THEN e
    ELSE [e EXCEPT !.hp = Min(e.hp + amount, e.maxhp)]

\* mutant of EntityUpdate: the countdown runs but never clears the flag
EntityUpdateKeepsFlag(e, deltaTime) ==
    IF e.hasHealth /\ e.inv THEN [e EXCEPT !.invT = e.invT - deltaTime] ELSE e

\* Entity.update: the invulnerability countdown
EntityUpdate(e, deltaTime) ==
    IF e.hasHealth /\ e.inv
    THEN [e EXCEPT !.invT = e.invT - deltaTime,
                   !.inv = ~(e.invT - deltaTime <= 0)]
    ELSE e

-----------------------------------------------------------------------------
(* The game.  The handlers are sequential code, so each is an operator from *)
(* a game record g (the variables, plus `crashed`: an exception is          *)
(* propagating, `overflow`: the model ran out of ids, and `visited`: the    *)
(* entities the running update pass has updated, each with its alive flag   *)
(* when its update returned) to a game record.                              *)

Cur == [state |-> state, score |-> score, lives |-> lives, wave |-> wave,
        runStats |-> runStats, playerData |-> playerData,
        entities |-> entities, obj |-> obj, player |-> player, keys |-> keys,
        hist |-> hist, crashed |-> FALSE, overflow |-> FALSE, visited |-> <<>>]

\* ids an object still refers to (a projectile's owner, an enemy's target)
Referenced(g) ==
    {g.obj[k].owner : k \in DOMAIN g.obj} \cup
    {g.obj[k].target : k \in DOMAIN g.obj} \cup {g.player}

FreeIds(g) == Ids \ (DOMAIN g.obj \cup Referenced(g))

\* the identity of the next object constructed (0: none left)
NewId(g) ==
    IF FreeIds(g) = {} THEN 0
    ELSE CHOOSE n \in FreeIds(g) : \A m \in FreeIds(g) : n <= m

\* Game.addEntity
addEntity(g, e) ==
    [g EXCEPT !.entities = Append(@, e.id), !.obj = (e.id :> e) @@ @]

\* `new X(...)` followed by game.addEntity
Spawn(g, Make(_)) ==
    IF NewId(g) = 0 THEN [g EXCEPT !.overflow = TRUE]
    ELSE addEntity(g, Make(NewId(g)))

\* Array.splice(i, 1) on the entity list; an object nothing refers to any
\* more leaves the heap
Splice(g, i) ==
    LET id   == g.entities[i]
        rest == [k \in 1..(Len(g.entities) - 1) |->
                    IF k < i THEN g.entities[k] ELSE g.entities[k + 1]]
        keep == IF id = g.player THEN DOMAIN g.obj ELSE DOMAIN g.obj \ {id}
    IN  [g EXCEPT !.entities = rest, !.obj = [k \in keep |-> g.obj[k]]]

\* Date.now() has advanced by dt since the previous frame: the time since
\* weapon.lastFired of the armed objects and since shield.lastDamageTime of
\* the Player
Elapse(g, dt) ==
    [g EXCEPT !.obj = [k \in DOMAIN g.obj |->
        [g.obj[k] EXCEPT
            !.sinceFired = IF g.obj[k].hasWeapon
                           THEN Min(@ + dt, g.obj[k].fireRate) ELSE @,
            !.sinceDamage = IF g.obj[k].cls = "Player"
                            THEN Min(@ + dt, ShieldRegenDelay + 1) ELSE @]]]

\* Game.addResource
addResource(g, type, amount) ==
    [g EXCEPT !.runStats.scrap = IF type = "scrap" THEN @ + amount ELSE @,
              !.runStats.crystals = IF type = "crystal" THEN @ + amount ELSE @]

\* mutant of endGame: the totals are replaced by the run's counters
endGameReplaces(g) ==
    [g EXCEPT !.state = "gameover",
              !.playerData.scrap = g.runStats.scrap,
              !.playerData.crystals = g.runStats.crystals,
              !.hist.ended = @ + 1]

\* Game.endGame
endGame(g) ==
    [g EXCEPT !.state = "gameover",
              !.playerData.scrap = @ + g.runStats.scrap,
              !.playerData.crystals = @ + g.runStats.crystals,
              !.hist.ended = @ + 1]

\* Game.togglePause
togglePause(g) ==
    IF g.state = "playing" THEN [g EXCEPT !.state = "paused"]
    ELSE IF g.state = "paused" THEN [g EXCEPT !.state = "playing"]
    ELSE g

\* mutant of playerDestroyed: a death costs every life, so the run ends
playerDestroyedAtOnce(g) == endGame([g EXCEPT !.lives = 0])

\* Game.playerDestroyed
playerDestroyed(g) ==
    LET g1 == [g EXCEPT !.lives = @ - 1]
    IN  IF g1.lives <= 0 THEN endGame(g1)
        ELSE [g1 EXCEPT !.obj[g.player] =
                [heal(g1.obj[g.player], g1.obj[g.player].maxhp) EXCEPT
                    !.atCentre = TRUE, !.moving = FALSE,
                    !.inv = TRUE, !.invT = RespawnInvulnerability],
              !.hist.respawns = @ + 1]

\* mutant of playerHit: the hazard is destroyed by the contact
playerHitBreaksHazard(g, p, hazard) ==
    LET r  == takeDamage(g.obj[p], ContactDamage)
        g1 == [g EXCEPT !.obj[p] = r.e,
                        !.obj[hazard] = destroy(@),
                        !.hist.deaths = IF r.ret THEN @ + 1 ELSE @]
    IN  IF r.ret THEN playerDestroyed(g1) ELSE g1

\* Game.playerHit
playerHit(g, p, hazard) ==
    LET r  == takeDamage(g.obj[p], ContactDamage)
        g1 == [g EXCEPT !.obj[p] = r.e,
                        !.hist.deaths = IF r.ret THEN @ + 1 ELSE @]
    IN  IF r.ret THEN playerDestroyed(g1) ELSE g1

\* Asteroid.createFragments: `count` is Utils.randomInt(2, 3)
createFragments(e, count) ==
    IF e.kind = "large" THEN [i \in 1..count |-> "medium"]
    ELSE IF e.kind = "medium" THEN [i \in 1..2 |-> "small"]
    ELSE <<>>

\* `new X(...)` and game.addEntity for each kind of the sequence, in order
\* (asteroids by size, enemies by type, loot pickups by resource)
RECURSIVE AddAll(_, _, _)
AddAll(g, type, kinds) ==
    IF kinds = <<>> THEN g
    ELSE AddAll(
            Spawn(g, LAMBDA n : CASE type = "asteroid" -> Asteroid(n, Head(kinds))
                                  [] type = "enemy" -> Enemy(n, Head(kinds))
                                  [] OTHER -> Pickup(n, "Pickup", Head(kinds))),
            type, Tail(kinds))

\* Game.entityDestroyed: score, then entity.destroy() and its fragments or
\* loot (env.frags, env.loot: the random draws of this frame)
entityDestroyed(g, id, env) ==
    LET e  == g.obj[id]
        g1 == [g EXCEPT !.score = @ + e.scoreValue,
                        !.obj[id] = [destroy(e) EXCEPT !.scored = @ + 1]]
    IN  IF e.type = "asteroid"
        THEN AddAll(g1, "asteroid", createFragments(e, env.frags))
        ELSE IF e.type = "enemy"
        THEN AddAll(g1, "pickup", env.loot)
        ELSE g1

\* mutant of projectileHit: the projectile survives the hit
projectileHitKeepsShot(g, p, t, env) ==
    IF g.obj[p].owner = t \/ g.obj[t].owner = p THEN g
    ELSE LET r  == takeDamage(g.obj[t], g.obj[p].damage)
             g1 == [g EXCEPT !.obj[t] = r.e]
         IN  IF r.ret THEN entityDestroyed(g1, t, env) ELSE g1

\* Game.projectileHit
projectileHit(g, p, t, env) ==
    IF g.obj[p].owner = t \/ g.obj[t].owner = p THEN g
    ELSE LET r  == takeDamage(g.obj[t], g.obj[p].damage)
             g1 == [g EXCEPT !.obj[t] = r.e]
             g2 == IF r.ret THEN entityDestroyed(g1, t, env) ELSE g1
         IN  [g2 EXCEPT !.obj[p] = destroy(@)]

\* Pickup.onCollect / Resource.onCollect, called by Game.pickupCollected
pickupCollected(g, k, p) ==
    LET g1 == [g EXCEPT !.obj[k] = [destroy(@) EXCEPT !.collected = @ + 1]]
    IN  IF g.obj[k].cls = "Resource" THEN addResource(g1, g.obj[k].kind, 1)
        ELSE g1

\* PhysicsEngine.checkCollision: both radii nonzero and the circles overlap
\* (env.touch: the pairs whose distance test succeeds in this scan)
checkCollision(g, a, b, env) ==
    /\ g.obj[a].radius # 0
    /\ g.obj[b].radius # 0
    /\ {a, b} \in env.touch

\* mutant of bounce: the impact also costs each body a point of health
bounceWithDamage(g, a, b, env) ==
    IF ~checkCollision(g, a, b, env) THEN g
    ELSE [g EXCEPT !.obj[a].atCentre = FALSE, !.obj[b].atCentre = FALSE,
                   !.obj[a].hp = @ - 1, !.obj[b].hp = @ - 1]

\* PhysicsEngine.handleCollision: the bodies are pushed apart and, when they
\* approach each other (env.approach), exchange an impulse
bounce(g, a, b, env) ==
    IF ~checkCollision(g, a, b, env) THEN g
    ELSE [g EXCEPT !.obj[a].atCentre = FALSE, !.obj[b].atCentre = FALSE,
                   !.obj[a].moving = IF env.approach THEN TRUE ELSE @,
                   !.obj[b].moving = IF env.approach THEN TRUE ELSE @]

\* [e1.type, e2.type].sort().join('-')
TypePair(g, a, b) == {g.obj[a].type, g.obj[b].type}

\* of the pair, the object of the given type
OfType(g, a, b, type) == IF g.obj[a].type = type THEN a ELSE b

\* Game.handleCollision
handleCollision(g, a, b, env) ==
    LET types == TypePair(g, a, b)
    IN  CASE types = {"asteroid", "player"} ->
                playerHit(g, OfType(g, a, b, "player"), OfType(g, a, b, "asteroid"))
          [] types = {"enemy", "player"} ->
                playerHit(g, OfType(g, a, b, "player"), OfType(g, a, b, "enemy"))
          [] types = {"asteroid", "projectile"} \/ types = {"enemy", "projectile"} ->
                projectileHit(g, OfType(g, a, b, "projectile"),
                              IF g.obj[a].type # "projectile" THEN a ELSE b, env)
          [] types = {"pickup", "player"} ->
                pickupCollected(g, OfType(g, a, b, "pickup"), OfType(g, a, b, "player"))
          [] types \in {{"asteroid"}, {"asteroid", "enemy"}, {"enemy"}} ->
                bounce(g, a, b, env)
          [] OTHER -> g

\* Game.checkCollisions: i < j over the list as it grows during the scan
RECURSIVE checkCollisionsFrom(_, _, _, _)
checkCollisionsFrom(g, i, j, env) ==
    IF i > Len(g.entities) THEN g
    ELSE IF j > Len(g.entities) THEN checkCollisionsFrom(g, i + 1, i + 2, env)
    ELSE checkCollisionsFrom(
            IF checkCollision(g, g.entities[i], g.entities[j], env)
            THEN handleCollision(g, g.entities[i], g.entities[j], env)
            ELSE g,
            i, j + 1, env)

checkCollisions(g, env) == checkCollisionsFrom(g, 1, 2, env)

\* mutant of isWaveComplete: a dead entity does not count
isWaveCompleteOfLive(g) ==
    \A i \in 1..Len(g.entities) :
        \/ g.obj[g.entities[i]].type \in {"player", "projectile", "pickup"}
        \/ ~g.obj[g.entities[i]].alive

\* Game.isWaveComplete
isWaveComplete(g) ==
    \A i \in 1..Len(g.entities) :
        g.obj[g.entities[i]].type \in {"player", "projectile", "pickup"}

\* mutant of startNextWave: as many enemies as the wave number
startNextWaveCrowded(g, env) ==
    LET g1 == [g EXCEPT !.wave = @ + 1]
        g2 == AddAll(g1, "asteroid", [i \in 1..(2 + g1.wave) |-> "large"])
    IN  IF g1.wave > 1
        THEN AddAll(g2, "enemy", [i \in 1..g1.wave |-> env.etype])
        ELSE g2

\* Game.startNextWave (env.etype: EnemyFactory.getRandomType())
startNextWave(g, env) ==
    LET g1 == [g EXCEPT !.wave = @ + 1]
        g2 == AddAll(g1, "asteroid", [i \in 1..(2 + g1.wave) |-> "large"])
    IN  IF g1.wave > 1
        THEN AddAll(g2, "enemy", [i \in 1..(g1.wave \div 2) |-> env.etype])
        ELSE g2

-----------------------------------------------------------------------------
(* The per-entity updates *)

\* Player.fire: fire-rate and overheat gate, heat, one projectile
PlayerFire(g, id) ==
    LET e == g.obj[id]
    IN  IF e.sinceFired < e.fireRate \/ e.overheated THEN g
        ELSE LET e1 == [e EXCEPT
                        !.heat = IF e.heated THEN @ + HeatPerShot ELSE @,
                        !.overheated = IF e.heated /\ e.heat + HeatPerShot >= MaxHeat
                                       THEN TRUE ELSE @,
                        !.sinceFired = 0]
             IN  Spawn([g EXCEPT !.obj[id] = e1],
                       LAMBDA n : Projectile(n, id, PlayerShotDamage, PlayerShotLifetime))

\* Player.useAbility with ability.type 'hyperspace' (Player.hyperspace): a
\* random position, zero velocity, 1000 ms of invulnerability
useAbility(g, id) ==
    IF g.obj[id].cooldown > 0 THEN g
    ELSE [g EXCEPT !.obj[id] =
            [@ EXCEPT !.atCentre = FALSE, !.moving = FALSE,
                      !.inv = TRUE, !.invT = HyperspaceInvulnerability,
                      !.cooldown = AbilityMaxCooldown]]

\* Player.handleInput (rotation is not modelled)
handleInput(g, id) ==
    LET g1 == IF g.obj[id].thrust THEN [g EXCEPT !.obj[id].pushed = TRUE] ELSE g
        g2 == IF g1.obj[id].fire THEN PlayerFire(g1, id) ELSE g1
    IN  IF g2.obj[id].ability THEN useAbility(g2, id) ELSE g2

\* mutant of updateWeapon: the latch is released as soon as heat < maxHeat
updateWeaponNoBand(g, id, deltaTime) ==
    LET e  == g.obj[id]
        h  == IF e.heated /\ e.heat > 0
              THEN Max(0, e.heat - (CooldownRate * deltaTime) \div 1000)
              ELSE e.heat
        e1 == [e EXCEPT !.heat = h,
                        !.overheated = IF e.heated /\ e.overheated /\ h < MaxHeat
                                       THEN FALSE ELSE @]
        g1 == [g EXCEPT !.obj[id] = e1]
    IN  IF e1.autoFire THEN PlayerFire(g1, id) ELSE g1

\* Player.updateWeapon: cooling, release of the overheat latch, auto-fire
updateWeapon(g, id, deltaTime) ==
    LET e  == g.obj[id]
        h  == IF e.heated /\ e.heat > 0
              THEN Max(0, e.heat - (CooldownRate * deltaTime) \div 1000)
              ELSE e.heat
        e1 == [e EXCEPT !.heat = h,
                        !.overheated = IF e.heated /\ e.overheated /\ 10 * h < 3 * MaxHeat
                                       THEN FALSE ELSE @]
        g1 == [g EXCEPT !.obj[id] = e1]
    IN  IF e1.autoFire THEN PlayerFire(g1, id) ELSE g1

\* Player.updateShield
updateShield(e, deltaTime) ==
    IF e.shield < ShieldMax /\ e.sinceDamage > ShieldRegenDelay
    THEN [e EXCEPT !.shield =
            Min(e.shield + (ShieldRegenRate * deltaTime) \div 1000, ShieldMax)]
    ELSE e

\* Player.update
PlayerUpdate(g, id, deltaTime) ==
    LET g1 == [g EXCEPT !.obj[id] = EntityUpdate(@, deltaTime)]
        g2 == handleInput(g1, id)
        g3 == updateWeapon(g2, id, deltaTime)
    IN  [g3 EXCEPT !.obj[id] =
            [updateShield(@, deltaTime) EXCEPT
                !.cooldown = IF @ > 0 THEN @ - deltaTime ELSE @]]

\* mutant of ProjectileUpdate: expiry only once the age exceeds the lifetime
ProjectileUpdateLate(g, id, deltaTime, env) ==
    LET e  == [EntityUpdate(g.obj[id], deltaTime) EXCEPT !.age = @ + deltaTime]
        e1 == IF e.age > e.lifetime THEN destroy(e) ELSE e
        e2 == IF id \in env.gone THEN destroy(e1) ELSE e1
    IN  [g EXCEPT !.obj[id] = e2]

\* Projectile.update: age, lifetime expiry, the off-screen test (env.gone)
ProjectileUpdate(g, id, deltaTime, env) ==
    LET e  == [EntityUpdate(g.obj[id], deltaTime) EXCEPT !.age = @ + deltaTime]
        e1 == IF e.age >= e.lifetime THEN destroy(e) ELSE e
        e2 == IF id \in env.gone THEN destroy(e1) ELSE e1
    IN  [g EXCEPT !.obj[id] = e2]

\* Pickup.update: lifetime, the magnet force when the live player is near
PickupUpdate(g, id, deltaTime, env) ==
    LET e  == [EntityUpdate(g.obj[id], deltaTime) EXCEPT !.lifetime = @ - deltaTime]
        e1 == IF e.lifetime <= 0 THEN destroy(e) ELSE e
        e2 == IF g.player # 0 /\ g.obj[g.player].alive /\ env.magnet
              THEN [e1 EXCEPT !.pushed = TRUE] ELSE e1
    IN  [g EXCEPT !.obj[id] = e2]

\* the projectiles of one volley, each `new Projectile` and game.addEntity
RECURSIVE AddShots(_, _, _)
AddShots(g, id, n) ==
    IF n = 0 THEN g
    ELSE AddShots(
            Spawn(g, LAMBDA k : Projectile(k, id, g.obj[id].damage, WeaponShotLifetime)),
            id, n - 1)

\* mutant of canFire: strictly more than the fire rate must have elapsed
canFireLate(e) == e.sinceFired > e.fireRate

\* Weapon.canFire
canFire(e) == e.sinceFired >= e.fireRate

\* Blaster.fire / SpreadShot.fire of an enemy's weapon
WeaponFire(g, id) ==
    IF ~canFire(g.obj[id]) THEN g
    ELSE AddShots([g EXCEPT !.obj[id].sinceFired = 0], id,
                  enemyData(g.obj[id].kind).shots)

\* ScoutSaucer.ai / HunterDrone.ai / MarauderFrigate.ai.  env.range is the
\* distance to the target: "far", "band", "near" or "zero"; seek returns
\* undefined at distance 0 and reading its .x throws
ai(g, id, env) ==
    LET e == g.obj[id]
    IN  CASE e.kind = "hunter_drone" ->
                IF e.target = 0 THEN g
                ELSE IF env.range = "zero" THEN [g EXCEPT !.crashed = TRUE]
                ELSE WeaponFire(
                        IF env.range \in {"far", "near"}
                        THEN [g EXCEPT !.obj[id].pushed = TRUE] ELSE g, id)
          [] e.kind = "marauder_frigate" ->
                IF e.target = 0 THEN g
                ELSE IF env.range = "zero" THEN [g EXCEPT !.crashed = TRUE]
                ELSE WeaponFire([g EXCEPT !.obj[id].pushed = TRUE], id)
          [] OTHER ->
                WeaponFire(
                    IF e.stateTimer > ScoutWanderPeriod
                    THEN [g EXCEPT !.obj[id].pushed = TRUE, !.obj[id].stateTimer = 0]
                    ELSE g, id)

\* Enemy.update
EnemyUpdate(g, id, deltaTime, env) ==
    LET e  == EntityUpdate(g.obj[id], deltaTime)
        e1 == [e EXCEPT
                !.stateTimer = Min(@ + deltaTime, ScoutWanderPeriod + 1),
                !.target = IF @ = 0 \/ ~g.obj[@].alive THEN g.player ELSE @]
    IN  ai([g EXCEPT !.obj[id] = e1], id, env)

\* entity.update as dispatched on the object's class
entityUpdate(g, id, deltaTime, env) ==
    CASE g.obj[id].cls = "Player" -> PlayerUpdate(g, id, deltaTime)
      [] g.obj[id].cls = "Projectile" -> ProjectileUpdate(g, id, deltaTime, env)
      [] g.obj[id].cls = "Enemy" -> EnemyUpdate(g, id, deltaTime, env)
      [] g.obj[id].cls \in {"Pickup", "Resource"} -> PickupUpdate(g, id, deltaTime, env)
      [] OTHER -> [g EXCEPT !.obj[id] = EntityUpdate(@, deltaTime)]

\* mutant of updateEntity: the accumulated force is kept for the next frame
updateEntityKeepsForce(e, deltaTime) ==
    LET m == IF e.pushed /\ deltaTime > 0 THEN TRUE ELSE e.moving
    IN  [e EXCEPT !.moving = m,
                  !.atCentre = IF m /\ deltaTime > 0 THEN FALSE ELSE @]

\* PhysicsEngine.updateEntity: force -> velocity -> position, force reset
updateEntity(e, deltaTime) ==
    LET m == IF e.pushed /\ deltaTime > 0 THEN TRUE ELSE e.moving
    IN  [e EXCEPT !.moving = m,
                  !.atCentre = IF m /\ deltaTime > 0 THEN FALSE ELSE @,
                  !.pushed = FALSE]

-----------------------------------------------------------------------------
(* The frame *)

\* Game.handlePlayerInput
handlePlayerInput(g) ==
    IF g.player = 0 \/ ~g.obj[g.player].alive THEN g
    ELSE LET g1 == [g EXCEPT !.obj[g.player] =
                        [@ EXCEPT !.thrust = "w" \in g.keys,
                                  !.fire = " " \in g.keys,
                                  !.ability = "shift" \in g.keys]]
         IN  IF "p" \in g.keys
             THEN [togglePause(g1) EXCEPT !.keys = @ \ {"p"}]
             ELSE g1

\* mutant of updateFrom: after a removal the loop steps over the next index
RECURSIVE updateFromSkipping(_, _, _, _)
updateFromSkipping(g, i, deltaTime, env) ==
    IF i <= 0 \/ g.crashed THEN g
    ELSE LET id == g.entities[i]
             g1 == entityUpdate(g, id, deltaTime, env)
             g2 == [g1 EXCEPT !.obj[id] = updateEntity(@, deltaTime),
                              !.visited = Append(@, [id |-> id, alive |-> g1.obj[id].alive])]
             g3 == IF ~g2.obj[id].alive THEN Splice(g2, i) ELSE g2
         IN  IF g1.crashed THEN g1
             ELSE updateFromSkipping(g3, IF ~g2.obj[id].alive THEN i - 2 ELSE i - 1,
                                     deltaTime, env)

\* Game.update, the entity loop: from the last index down, splicing the dead
RECURSIVE updateFrom(_, _, _, _)
updateFrom(g, i, deltaTime, env) ==
    IF i = 0 \/ g.crashed THEN g
    ELSE LET id == g.entities[i]
             g1 == entityUpdate(g, id, deltaTime, env)
             g2 == [g1 EXCEPT !.obj[id] = updateEntity(@, deltaTime),
                              !.visited = Append(@, [id |-> id, alive |-> g1.obj[id].alive])]
             g3 == IF ~g2.obj[id].alive THEN Splice(g2, i) ELSE g2
         IN  IF g1.crashed THEN g1 ELSE updateFrom(g3, i - 1, deltaTime, env)

\* Game.update
update(g, deltaTime, env) ==
    LET g1 == handlePlayerInput(g)
        g2 == updateFrom(g1, Len(g1.entities), deltaTime, env)
        g3 == checkCollisions(g2, env)
    IN  IF g2.crashed THEN g2
        ELSE IF isWaveComplete(g3) THEN startNextWave(g3, env) ELSE g3

\* mutant of gameLoop: the update runs in every state
gameLoopAlways(g, deltaTime, env) == update(Elapse(g, deltaTime), deltaTime, env)

\* Game.gameLoop: update only while playing
gameLoop(g, deltaTime, env) ==
    IF g.state = "playing" THEN update(Elapse(g, deltaTime), deltaTime, env)
    ELSE Elapse(g, deltaTime)

\* hist: the player deaths, respawns and endGame calls of the run; and, for
\* the method-level specifications, the last call (its name, arguments and
\* return value), the number of calls, what last set the invulnerability
\* ("hit": takeDamage, "warp": hyperspace) and the update time since then
NoHist == [deaths |-> 0, respawns |-> 0, ended |-> 0,
           calls |-> 0, op |-> "none", arg |-> 0, arg2 |-> 0, ret |-> FALSE,
           trigger |-> "none", acc |-> 0]

\* mutant of startGame: the entity list of the previous run is kept
startGameKeepsList(g, env) ==
    LET g1 == [g EXCEPT !.state = "playing", !.score = 0, !.lives = StartLives,
                        !.wave = 0,
                        !.runStats = [scrap |-> 0, crystals |-> 0],
                        !.hist = NoHist]
        p  == NewId(g1)
        g2 == addEntity([g1 EXCEPT !.player = p],
                        [Player(p) EXCEPT !.atCentre = TRUE, !.heated = FALSE,
                                          !.fireRate = BlasterFireRate,
                                          !.sinceFired = BlasterFireRate,
                                          !.autoFire = TRUE])
    IN  startNextWave(g2, env)

\* Game.startGame up to the start of the loop: reset, the player with the
\* factory's Blaster as weapon and auto-fire on, the first wave
startGame(g, env) ==
    LET g1 == [g EXCEPT !.state = "playing", !.score = 0, !.lives = StartLives,
                        !.wave = 0, !.entities = <<>>, !.obj = <<>>,
                        !.player = 0,
                        !.runStats = [scrap |-> 0, crystals |-> 0],
                        !.hist = NoHist]
        p  == NewId(g1)
        g2 == addEntity([g1 EXCEPT !.player = p],
                        [Player(p) EXCEPT !.atCentre = TRUE, !.heated = FALSE,
                                          !.fireRate = BlasterFireRate,
                                          !.sinceFired = BlasterFireRate,
                                          !.autoFire = TRUE])
    IN  startNextWave(g2, env)

-----------------------------------------------------------------------------
(* The inputs of a frame *)

Listed(g) == {g.entities[i] : i \in 1..Len(g.entities)}

OfClass(g, cls) == {k \in Listed(g) : g.obj[k].cls = cls}

\* the pairs of listed objects whose overlap Game.handleCollision acts on
\* with an effect the model keeps (a projectile never meets its owner)
Pairs(g) ==
    {{a, b} : a \in OfClass(g, "Player"),
              b \in OfClass(g, "Asteroid") \cup OfClass(g, "Enemy")
                    \cup OfClass(g, "Pickup") \cup OfClass(g, "Resource")}
    \cup ({{a, b} : a \in OfClass(g, "Projectile"),
                    b \in OfClass(g, "Asteroid") \cup OfClass(g, "Enemy")}
          \ {{a, g.obj[a].owner} : a \in OfClass(g, "Projectile")})
    \cup {p \in {{a, b} : a \in OfClass(g, "Enemy"),
                          b \in OfClass(g, "Asteroid") \cup OfClass(g, "Enemy")} :
            Cardinality(p) = 2}

\* the sets of at most n overlapping pairs
RECURSIVE UpTo(_, _)
UpTo(S, n) ==
    IF n = 0 THEN {{}}
    ELSE UpTo(S, n - 1) \cup {t \cup {p} : t \in UpTo(S, n - 1), p \in S}

Ranges == {"far", "band", "near", "zero"}

\* Enemy.createLoot: scrap and crystal pickups, up to MaxLoot of them
Loots == {<<>>} \cup
         UNION {[1..n -> {"scrap", "crystal"}] : n \in 1..MaxLoot}

\* some pair of t is a projectile over an object of class cls (and kind,
\* unless "any") that one more shot destroys, or that is already dead
Lethal(g, t, cls, kind) ==
    \E pr \in t : \E a \in pr, b \in pr :
        /\ g.obj[a].cls = cls
        /\ kind \in {"any", g.obj[a].kind}
        /\ g.obj[a].hp <= PlayerShotDamage
        /\ g.obj[b].cls = "Projectile"

\* some pair of t is a PhysicsEngine.handleCollision pair with a body at rest
Jolts(g, t) ==
    \E pr \in t : /\ \A a \in pr : g.obj[a].cls \in {"Asteroid", "Enemy"}
                  /\ \E a \in pr : ~g.obj[a].moving

\* the distances an enemy's ai tells apart
RangesOf(g) ==
    IF \E e \in OfClass(g, "Enemy") : g.obj[e].kind = "hunter_drone" THEN Ranges
    ELSE IF \E e \in OfClass(g, "Enemy") : g.obj[e].kind = "marauder_frigate"
    THEN {"far", "zero"}
    ELSE {"far"}

\* What a frame can draw in state g: the overlaps among the listed objects
\* (Touches), the projectiles that left the screen (Gone), the distance of
\* the enemies to their target (RangesOf), pickups within magnet range
\* (Magnets), whether colliding bodies approach each other (Approaches), and
\* the Math.random outcomes that the frame reads (Frags, LootsOf, ETypes)
Touches(g, n) == UpTo(Pairs(g), n)

Gone(g, n) == UpTo(OfClass(g, "Projectile"), n)

Magnets(g) ==
    IF OfClass(g, "Pickup") \cup OfClass(g, "Resource") = {} THEN {FALSE}
    ELSE BOOLEAN

Approaches(g, t) == IF Jolts(g, t) THEN BOOLEAN ELSE {TRUE}

Frags(g, t) == IF Lethal(g, t, "Asteroid", "large") THEN {2, 3} ELSE {2}

LootsOf(g, t) == IF Lethal(g, t, "Enemy", "any") THEN Loots ELSE {<<>>}

ETypes(g) ==
    IF /\ g.wave >= 1
       /\ \A h \in OfClass(g, "Asteroid") \cup OfClass(g, "Enemy") : ~g.obj[h].alive
    THEN EnemyTypes ELSE {"scout_saucer"}

\* the draws of the update that startGame runs at deltaTime 0: nothing has
\* moved, the player is at the centre and the wave at the screen edges
StartEnv ==
    [touch |-> {}, gone |-> {}, range |-> "far", magnet |-> FALSE,
     approach |-> TRUE, frags |-> 2, loot |-> <<>>, etype |-> "scout_saucer"]

-----------------------------------------------------------------------------
(* The state machine *)

Keys == {"w", " ", "shift", "p"}

Commit(g) ==
    /\ ~g.overflow
    /\ state' = g.state
    /\ score' = g.score
    /\ lives' = g.lives
    /\ wave' = g.wave
    /\ runStats' = g.runStats
    /\ playerData' = g.playerData
    /\ entities' = g.entities
    /\ obj' = g.obj
    /\ player' = g.player
    /\ keys' = g.keys
    /\ hist' = g.hist

Unused == [frames |-> 0, overlaps |-> 0, exits |-> 0, presses |-> 0]

\* Game.constructor
Init ==
    /\ state = "menu"
    /\ score = 0
    /\ lives = StartLives
    /\ wave = 0
    /\ runStats = [scrap |-> 0, crystals |-> 0]
    /\ playerData = [scrap |-> 0, crystals |-> 0]
    /\ entities = <<>>
    /\ obj = <<>>
    /\ player = 0
    /\ keys = {}
    /\ loop = "idle"
    /\ used = Unused
    /\ hist = NoHist

\* the start buttons of the main menu and "play again" of the game-over menu:
\* Game.startGame; the first start runs gameLoop(0) itself
StartGame ==
    /\ state \in {"menu", "gameover"}
    /\ \E g \in {startGame(Cur, StartEnv)} :
       \E g1 \in {IF loop = "idle" THEN gameLoop(g, 0, StartEnv) ELSE g} :
           /\ Commit(g1)
           /\ loop' = IF loop = "idle" /\ ~g1.crashed THEN "running" ELSE loop
    /\ UNCHANGED used

\* a requestAnimationFrame callback: Game.gameLoop(timestamp)
Frame ==
    /\ loop = "running"
    /\ used.frames < MaxFrames
    /\ \E dt \in DeltaTimes, t \in Touches(Cur, MaxOverlaps - used.overlaps) :
       \E gn \in Gone(Cur, MaxExits - used.exits), r \in RangesOf(Cur), m \in Magnets(Cur),
          a \in Approaches(Cur, t), f \in Frags(Cur, t), l \in LootsOf(Cur, t),
          e \in ETypes(Cur) :
          \E g \in {gameLoop(Cur, dt,
                              [touch |-> t, gone |-> gn, range |-> r, magnet |-> m,
                               approach |-> a, frags |-> f, loot |-> l, etype |-> e])} :
              /\ Commit(g)
              /\ loop' = IF g.crashed THEN "dead" ELSE "running"
              /\ used' = [used EXCEPT !.frames = @ + 1,
                                       !.overlaps = @ + Cardinality(t),
                                       !.exits = @ + Cardinality(gn)]

\* the keydown listener
KeyDown(k) ==
    /\ k \notin keys
    /\ used.presses < MaxPresses
    /\ keys' = keys \cup {k}
    /\ used' = [used EXCEPT !.presses = @ + 1]
    /\ UNCHANGED <<state, score, lives, wave, runStats, playerData, entities,
                   obj, player, loop, hist>>

\* the keyup listener
KeyUp(k) ==
    /\ k \in keys
    /\ keys' = keys \ {k}
    /\ UNCHANGED <<state, score, lives, wave, runStats, playerData, entities,
                   obj, player, loop, used, hist>>

\* the "resume" button of the pause menu
ResumeGame ==
    /\ state = "paused"
    /\ Commit(togglePause(Cur))
    /\ UNCHANGED <<loop, used>>

\* the "back to menu" button of the pause menu: togglePause(); endGame()
QuitFromPause ==
    /\ state = "paused"
    /\ Commit(endGame(togglePause(Cur)))
    /\ UNCHANGED <<loop, used>>

Next ==
    \/ StartGame
    \/ Frame
    \/ \E k \in Keys : KeyDown(k)
    \/ \E k \in Keys : KeyUp(k)
    \/ ResumeGame
    \/ QuitFromPause

Spec == Init /\ [][Next]_vars

-----------------------------------------------------------------------------
(* Mid-run scenes: states a run reaches after some play, from which the     *)
(* same actions continue.  A scene is the player after some contact hits,   *)
(* one hazard of the current wave after some projectile hits, and a few of  *)
(* the player's projectiles in flight.                                      *)

\* the state, at the end of a frame, of an object that a hit of `amount`
\* struck in each of the last n frames (Entity.update, then takeDamage)
RECURSIVE AfterHits(_, _, _)
AfterHits(e, amount, n) ==
    IF n = 0 THEN e
    ELSE takeDamage(EntityUpdate(AfterHits(e, amount, n - 1), FrameMs), amount).e

\* the number of hits of `amount` an object of health h survives
Survives(h, amount) == (h - 1) \div amount

HazardKinds ==
    {<<"asteroid", "large">>, <<"asteroid", "medium">>, <<"asteroid", "small">>}
    \cup {<<"enemy", k>> : k \in EnemyTypes}

\* the hazard of a scene: Asteroid or Enemy as constructed, then either
\* untouched or hit as often as it survives
Hazard(id, hk, worn, target) ==
    LET e == IF hk[1] = "asteroid" THEN Asteroid(id, hk[2])
             ELSE [Enemy(id, hk[2]) EXCEPT !.target = target, !.sinceFired = 0,
                                           !.moving = TRUE]
    IN  AfterHits(e, PlayerShotDamage,
                  IF worn THEN Survives(e.maxhp, PlayerShotDamage) ELSE 0)

\* n projectiles of the player in flight
RECURSIVE InFlight(_, _, _)
InFlight(g, id, n) ==
    IF n = 0 THEN g
    ELSE InFlight(
            Spawn(g, LAMBDA k : Projectile(k, id, PlayerShotDamage, PlayerShotLifetime)),
            id, n - 1)

\* the player of a scene: as startGame makes it, then hit, away from the
\* centre, having fired in the previous frame
ScenePlayer(id, hits) ==
    [AfterHits([Player(id) EXCEPT !.heated = FALSE, !.autoFire = TRUE],
               ContactDamage, hits) EXCEPT
        !.sinceFired = 0, !.moving = TRUE,
        !.sinceDamage = IF hits = 0 THEN ShieldRegenDelay + 1 ELSE 0]

Scene(pw, hk, hh) ==
    LET p  == ScenePlayer(1, IF pw THEN Survives(ShieldMax + PlayerMaxHealth,
                                                ContactDamage) ELSE 0)
        h  == Hazard(2, hk, hh, 1)
        g0 == [state |-> "playing", score |-> 0, lives |-> StartLives,
               wave |-> IF hk[1] = "asteroid" THEN 1 ELSE 2,
               runStats |-> [scrap |-> 0, crystals |-> 0],
               playerData |-> [scrap |-> 0, crystals |-> 0],
               entities |-> <<>>, obj |-> <<>>, player |-> 1, keys |-> {},
               hist |-> NoHist, crashed |-> FALSE, overflow |-> FALSE, visited |-> <<>>]
    IN  InFlight(addEntity(addEntity(g0, p), h), 1, MaxShots)

\* the scenes: every hazard, untouched, with the player untouched or worn;
\* and every hazard worn, with the player untouched
Scenes ==
    {Scene(pw, hk, FALSE) : pw \in BOOLEAN, hk \in HazardKinds}
    \cup {Scene(FALSE, hk, TRUE) : hk \in HazardKinds}

InitMid ==
    \E sc \in Scenes :
        /\ state = sc.state
        /\ score = sc.score
        /\ lives = sc.lives
        /\ wave = sc.wave
        /\ runStats = sc.runStats
        /\ playerData = sc.playerData
        /\ entities = sc.entities
        /\ obj = sc.obj
        /\ player = sc.player
        /\ keys = sc.keys
        /\ loop = "running"
        /\ used = Unused
        /\ hist = sc.hist

SpecMid == InitMid /\ [][Next]_vars

-----------------------------------------------------------------------------
(* Method level: one object, and its takeDamage, heal, update and (for the  *)
(* player) useAbility methods called in any order with any argument.        *)

Subjects ==
    {Player(1), Projectile(1, 0, PlayerShotDamage, PlayerShotLifetime)}
    \cup {Asteroid(1, size) : size \in {"large", "medium", "small"}}
    \cup {Enemy(1, k) : k \in EnemyTypes}

Amounts == {0, 10, ContactDamage, 60, 150}

CallDeltas == {FrameMs \div 2, FrameMs}

InitEntity ==
    \E e \in Subjects :
        /\ state = "playing"
        /\ score = 0
        /\ lives = StartLives
        /\ wave = 1
        /\ runStats = [scrap |-> 0, crystals |-> 0]
        /\ playerData = [scrap |-> 0, crystals |-> 0]
        /\ entities = <<1>>
        /\ obj = (1 :> e)
        /\ player = IF e.cls = "Player" THEN 1 ELSE 0
        /\ keys = {}
        /\ loop = "idle"
        /\ used = Unused
        /\ hist = NoHist

\* the record of a call: its name, argument and return value
Called(g, op, arg, ret) ==
    [g EXCEPT !.hist.calls = @ + 1, !.hist.op = op, !.hist.arg = arg,
              !.hist.ret = ret]

\* entity.takeDamage(amount)
CallTakeDamage(amount) ==
    /\ hist.calls < MaxCalls
    /\ LET r   == takeDamage(obj[1], amount)
           set == r.e.inv /\ (~obj[1].inv \/ r.e.invT # obj[1].invT)
           g   == [Cur EXCEPT !.obj[1] = r.e,
                              !.hist.trigger = IF set THEN "hit" ELSE @,
                              !.hist.acc = IF set THEN 0 ELSE @]
       IN  Commit(Called(g, "takeDamage", amount, r.ret))
    /\ UNCHANGED <<loop, used>>

\* entity.heal(amount)
CallHeal(amount) ==
    /\ hist.calls < MaxCalls
    /\ Commit(Called([Cur EXCEPT !.obj[1] = heal(@, amount)], "heal", amount, FALSE))
    /\ UNCHANGED <<loop, used>>

\* entity.update(deltaTime, game), deltaTime after the previous call
CallUpdate(deltaTime) ==
    /\ hist.calls < MaxCalls
    /\ LET g  == entityUpdate(Elapse(Cur, deltaTime), 1, deltaTime, StartEnv)
           g1 == [g EXCEPT !.hist.acc = Min(@ + deltaTime, HyperspaceInvulnerability)]
       IN  Commit(Called(g1, "update", deltaTime, FALSE))
    /\ UNCHANGED <<loop, used>>

\* player.useAbility(game)
CallUseAbility ==
    /\ hist.calls < MaxCalls
    /\ obj[1].cls = "Player"
    /\ LET g  == useAbility(Cur, 1)
           g1 == IF obj[1].cooldown > 0 THEN g
                 ELSE [g EXCEPT !.hist.trigger = "warp", !.hist.acc = 0]
       IN  Commit(Called(g1, "useAbility", 0, FALSE))
    /\ UNCHANGED <<loop, used>>

NextEntity ==
    \/ \E a \in Amounts : CallTakeDamage(a)
    \/ \E a \in Amounts : CallHeal(a)
    \/ \E dt \in CallDeltas : CallUpdate(dt)
    \/ CallUseAbility

SpecEntity == InitEntity /\ [][NextEntity]_vars

-----------------------------------------------------------------------------
(* A siege: a started session whose every frame has a hazard over the       *)
(* player, for as long as the player is in the entity list.  The browser    *)
(* keeps calling gameLoop (requestAnimationFrame at the end of gameLoop),   *)
(* hence the weak fairness of the frame.                                    *)

\* the game as constructed
Constructed ==
    [state |-> "menu", score |-> 0, lives |-> StartLives, wave |-> 0,
     runStats |-> [scrap |-> 0, crystals |-> 0],
     playerData |-> [scrap |-> 0, crystals |-> 0],
     entities |-> <<>>, obj |-> <<>>, player |-> 0, keys |-> {},
     hist |-> NoHist, crashed |-> FALSE, overflow |-> FALSE, visited |-> <<>>]

\* the session as startGame() leaves it (with its gameLoop(0))
InitSiege ==
    \E g0 \in {startGame(Constructed, StartEnv)} :
    \E g \in {gameLoop(g0, 0, StartEnv)} :
        /\ state = g.state
        /\ score = g.score
        /\ lives = g.lives
        /\ wave = g.wave
        /\ runStats = g.runStats
        /\ playerData = g.playerData
        /\ entities = g.entities
        /\ obj = g.obj
        /\ player = g.player
        /\ keys = g.keys
        /\ loop = "running"
        /\ used = Unused
        /\ hist = g.hist

\* the overlaps of a siege frame: one hazard over the player
SiegeTouches(g) ==
    LET hazards == OfClass(g, "Asteroid") \cup OfClass(g, "Enemy")
    IN  IF g.player \in Listed(g) /\ hazards # {}
        THEN {{{g.player, h}} : h \in hazards}
        ELSE {{}}

\* Game.gameLoop(timestamp) in a siege
SiegeFrame ==
    /\ loop = "running"
    /\ \E dt \in DeltaTimes, t \in SiegeTouches(Cur), gn \in Gone(Cur, MaxExits),
          r \in RangesOf(Cur), m \in Magnets(Cur), e \in ETypes(Cur) :
          \E g \in {gameLoop(Cur, dt,
                              [touch |-> t, gone |-> gn, range |-> r, magnet |-> m,
                               approach |-> TRUE, frags |-> 2, loot |-> <<>>,
                               etype |-> e])} :
              /\ Commit(g)
              /\ loop' = IF g.crashed THEN "dead" ELSE "running"
    /\ used' = [used EXCEPT !.frames = (@ + 1) % (MaxFrames + 1)]

\* the frame as the frame count shows it: while the loop runs the next
\* frame is due, and the steps that advance the count are the SiegeFrame
\* steps.  Fairness is stated on this action, so that whether a frame is due
\* is read off `loop` alone.
FrameDue ==
    /\ loop = "running"
    /\ used' = [used EXCEPT !.frames = (@ + 1) % (MaxFrames + 1)]

SpecSiege == InitSiege /\ [][SiegeFrame]_vars /\ WF_used(FrameDue)

-----------------------------------------------------------------------------
(* Collision dispatch: Game.handleCollision called on any two listed        *)
(* objects of a scene, in either argument order, between quiet frames.      *)

\* Game.handleCollision(e1, e2) for an overlapping pair
Collide(a, b) ==
    /\ hist.calls < MaxCalls
    /\ a # b
    /\ \E f \in {2, 3}, l \in Loots :
          \E g \in {handleCollision(Cur, a, b,
                        [StartEnv EXCEPT !.touch = {{a, b}}, !.frags = f, !.loot = l])} :
              Commit([Called(g, "collide", a, FALSE) EXCEPT !.hist.arg2 = b])
    /\ UNCHANGED <<loop, used>>

\* a frame in which nothing overlaps
Quiet ==
    /\ hist.calls < MaxCalls
    /\ \E g \in {gameLoop(Cur, FrameMs, StartEnv)} :
           /\ ~g.crashed
           /\ Commit(Called(g, "frame", FrameMs, FALSE))
    /\ UNCHANGED <<loop, used>>

NextCollide ==
    \/ \E a \in Listed(Cur), b \in Listed(Cur) : Collide(a, b)
    \/ Quiet

\* a scene of a later wave: a second enemy (a scout) beside the first
DuoScenes ==
    {Spawn([Scene(FALSE, <<"enemy", k>>, FALSE) EXCEPT !.wave = 4],
           LAMBDA n : Hazard(n, <<"enemy", "scout_saucer">>, FALSE, 1)) :
        k \in EnemyTypes}

InitCollide ==
    \E sc \in Scenes \cup DuoScenes :
        /\ state = sc.state
        /\ score = sc.score
        /\ lives = sc.lives
        /\ wave = sc.wave
        /\ runStats = sc.runStats
        /\ playerData = sc.playerData
        /\ entities = sc.entities
        /\ obj = sc.obj
        /\ player = sc.player
        /\ keys = sc.keys
        /\ loop = "running"
        /\ used = Unused
        /\ hist = sc.hist

SpecCollide == InitCollide /\ [][NextCollide]_vars

-----------------------------------------------------------------------------
(* Properties of the damage methods (checked under SpecEntity) *)

\* this step is a call of the method `op`
Step(op) == hist'.calls = hist.calls + 1 /\ hist'.op = op

\* C5: while the invulnerable flag is set, takeDamage of any amount returns
\* false and changes neither the health nor, for the Player, the shield
C5_InvulnerableIgnoresDamage ==
    [][(Step("takeDamage") /\ obj[1].hasHealth /\ obj[1].inv)
        => /\ hist'.ret = FALSE
           /\ obj'[1].hp = obj[1].hp
           /\ obj'[1].shield = obj[1].shield]_vars

\* C6: takeDamage(a) with a >= current on a vulnerable entity sets current to
\* 0, marks it dead and returns true; a later takeDamage on the dead entity
\* changes nothing, triggers no further destroy and returns false
C6_LethalThenInert ==
    [][Step("takeDamage")
        => /\ (/\ obj[1].hasHealth /\ ~obj[1].inv /\ obj[1].shield = 0
               /\ hist'.arg >= obj[1].hp)
              => (obj'[1].hp = 0 /\ ~obj'[1].alive /\ hist'.ret)
           /\ (obj[1].hasHealth /\ ~obj[1].alive)
              => /\ ~hist'.ret
                 /\ obj'[1].destroyCalls = obj[1].destroyCalls
                 /\ obj'[1].hp = obj[1].hp
                 /\ obj'[1].inv = obj[1].inv]_vars

\* C7: 0 <= health.current <= health.max after every call, and takeDamage
\* returns true exactly when the call brought current to 0
C7_HealthRangeAndReturn ==
    [][(hist'.calls = hist.calls + 1 /\ obj[1].hasHealth)
        => /\ 0 <= obj'[1].hp
           /\ obj'[1].hp <= obj'[1].maxhp
           /\ Step("takeDamage")
              => (hist'.ret <=> (obj[1].hp > 0 /\ obj'[1].hp = 0))]_vars

\* C8: a takeDamage that lowers health without killing opens a 500 ms
\* window; only update(deltaTime) counts it down; after 500 ms of update
\* time with no new trigger the entity is vulnerable again (and not before)
C8_WindowEnds ==
    [][(hist'.calls = hist.calls + 1 /\ obj[1].hasHealth)
        => /\ (Step("takeDamage") /\ obj'[1].alive /\ obj'[1].hp < obj[1].hp)
              => (obj'[1].inv /\ obj'[1].invT = HitInvulnerability)
           /\ (Step("heal") \/ (Step("takeDamage") /\ obj[1].inv))
              => (obj'[1].inv = obj[1].inv /\ obj'[1].invT = obj[1].invT)
           /\ hist'.trigger = "hit"
              => (obj'[1].inv <=> hist'.acc < HitInvulnerability)]_vars

\* C8 witness: a window opened by a hit has run out through updates
C8_Witness ==
    /\ hist.trigger = "hit"
    /\ hist.op = "update"
    /\ hist.acc >= HitInvulnerability
    /\ obj[1].alive
    /\ obj[1].hp < obj[1].maxhp
    /\ ~obj[1].inv

\* C9: for a vulnerable Player with shield s and health h, takeDamage(a)
\* leaves shield = max(0, s - a), health = max(0, h - max(0, a - s)); when
\* a <= s and s > 0, health and the invulnerable flag are unchanged and the
\* call returns false
C9_ShieldThenHealth ==
    [][(Step("takeDamage") /\ obj[1].cls = "Player" /\ ~obj[1].inv)
        => LET s == obj[1].shield
               h == obj[1].hp
               a == hist'.arg
           IN  /\ obj'[1].shield = Max(0, s - a)
               /\ obj'[1].hp = Max(0, h - Max(0, a - s))
               /\ (a <= s /\ s > 0)
                  => /\ obj'[1].hp = h
                     /\ obj'[1].inv = obj[1].inv
                     /\ ~hist'.ret]_vars

\* C9 witness: a hit of 60 on the fresh player emptied the shield of 50 and
\* took the remaining 10 from the health
C9_Witness ==
    /\ hist.op = "takeDamage"
    /\ hist.arg = 60
    /\ obj[1].cls = "Player"
    /\ obj[1].shield = 0
    /\ obj[1].hp = PlayerMaxHealth - 10
    /\ obj[1].inv

-----------------------------------------------------------------------------
(* Properties of a run (checked under SpecMid) *)

\* C1: after a death that leaves a life, the run continues with the player
\* respawned and still in the entity list in the following frames
C1_RespawnedPlayerListed ==
    (hist.respawns > 0 /\ state # "gameover") => player \in Listed(Cur)

C4_DestroyedOnce ==
    \A k \in DOMAIN obj :
        obj[k].type \in {"asteroid", "enemy"} => obj[k].scored <= 1

\* C3: in a started session in which hazards keep hitting the player, lives
\* eventually reaches 0 and the state becomes gameover (checked under
\* SpecSiege)
C3_GameOverReached == <>(lives = 0 /\ state = "gameover")

-----------------------------------------------------------------------------
(* Properties of the collision dispatch (checked under SpecCollide) *)

\* C10: for a colliding asteroid-player or enemy-player pair, in either
\* argument order, the player receives takeDamage(25) and the hazard is
\* unchanged (health, alive flag, position, velocity and all the rest)
C10_ContactHurtsPlayerOnly ==
    [][(Step("collide")
        /\ TypePair(Cur, hist'.arg, hist'.arg2)
              \in {{"asteroid", "player"}, {"enemy", "player"}})
        => LET p == OfType(Cur, hist'.arg, hist'.arg2, "player")
               h == IF p = hist'.arg THEN hist'.arg2 ELSE hist'.arg
               r == takeDamage(obj[p], ContactDamage)
           IN  /\ obj'[h] = obj[h]
               /\ h \in Listed([entities |-> entities'])
               /\ ~r.ret => obj'[p] = r.e
               /\ hist'.deaths = hist.deaths + (IF r.ret THEN 1 ELSE 0)
               /\ ~obj[p].inv => obj'[p].shield = Max(0, obj[p].shield - ContactDamage)
               /\ (~obj[p].inv /\ obj[p].shield = 0 /\ obj[p].hp > ContactDamage)
                  => obj'[p].hp = obj[p].hp - ContactDamage]_vars

\* C10 witness: handleCollision(enemy, player) took 25 from the full shield
\* and left the enemy alive
C10_Witness ==
    /\ hist.op = "collide"
    /\ hist.arg # player
    /\ hist.arg2 = player
    /\ obj[hist.arg].type = "enemy"
    /\ obj[hist.arg].alive
    /\ obj[player].shield = ShieldMax - ContactDamage
    /\ obj[player].hp = PlayerMaxHealth

\* this step is Game.handleCollision on a pair of the given two types
CollideStep(types) ==
    /\ Step("collide")
    /\ TypePair(Cur, hist'.arg, hist'.arg2) = types

\* C11: for a colliding asteroid-projectile or enemy-projectile pair, in
\* either argument order: when the projectile's owner is the target neither
\* changes; otherwise the target receives takeDamage(projectile.damage) and
\* the projectile is destroyed
C11_ProjectileHitsTarget ==
    [][(CollideStep({"asteroid", "projectile"}) \/ CollideStep({"enemy", "projectile"}))
        => LET p == OfType(Cur, hist'.arg, hist'.arg2, "projectile")
               t == IF p = hist'.arg THEN hist'.arg2 ELSE hist'.arg
               r == takeDamage(obj[t], obj[p].damage)
           IN  IF obj[p].owner = t
               THEN obj'[p] = obj[p] /\ obj'[t] = obj[t] /\ score' = score
               ELSE /\ obj'[p] = destroy(obj[p])
                    /\ ~r.ret => obj'[t] = r.e
                    /\ r.ret => (obj'[t].hp = 0 /\ ~obj'[t].alive)
                    /\ obj[t].inv => obj'[t] = obj[t]
                    /\ (~obj[t].inv /\ obj[t].hp > obj[p].damage)
                       => (obj'[t].hp = obj[t].hp - obj[p].damage /\ obj'[t].alive)]_vars

\* C11 witness: handleCollision(enemy, its own projectile) left both as
\* they were
C11_Witness ==
    /\ hist.op = "collide"
    /\ obj[hist.arg].type = "enemy"
    /\ obj[hist.arg2].type = "projectile"
    /\ obj[hist.arg2].owner = hist.arg
    /\ obj[hist.arg].alive
    /\ obj[hist.arg2].alive
    /\ obj[hist.arg].hp = obj[hist.arg].maxhp

\* health, shield and alive flag of an object
Vital(e) == <<e.hp, e.shield, e.alive>>

\* an object but for its position and velocity
Still(e) == [e EXCEPT !.atCentre = FALSE, !.moving = FALSE, !.pushed = FALSE]

HazardTypes == {"asteroid", "enemy"}

\* C12: collision dispatch changes health, shield or alive flag only of the
\* player in hazard-player pairs, of target and projectile in
\* hazard-projectile pairs and of the pickup in pickup-player pairs; bounce
\* pairs (asteroid-asteroid, asteroid-enemy, enemy-enemy) change only
\* positions and velocities; any other pair leaves everything unchanged
C12_DispatchTouchesOnlyItsPair ==
    [][Step("collide")
        => LET a == hist'.arg
               b == hist'.arg2
               types == TypePair(Cur, a, b)
               may == IF types \in {{h, "player"} : h \in HazardTypes}
                      THEN {OfType(Cur, a, b, "player")}
                      ELSE IF types \in {{h, "projectile"} : h \in HazardTypes}
                      THEN {a, b}
                      ELSE IF types = {"pickup", "player"}
                      THEN {OfType(Cur, a, b, "pickup")}
                      ELSE {}
           IN  /\ \A k \in DOMAIN obj :
                     k \notin may => Vital(obj'[k]) = Vital(obj[k])
               /\ (types \subseteq HazardTypes)
                  => /\ \A k \in DOMAIN obj : Still(obj'[k]) = Still(obj[k])
                     /\ \A k \in DOMAIN obj \ {a, b} : obj'[k] = obj[k]
                     /\ DOMAIN obj' = DOMAIN obj
                     /\ <<entities', score', lives', state', runStats'>>
                        = <<entities, score, lives, state, runStats>>
               /\ (may = {} /\ ~(types \subseteq HazardTypes))
                  => /\ obj' = obj
                     /\ <<entities', score', lives', state', runStats'>>
                        = <<entities, score, lives, state, runStats>>]_vars

\* C12 witness: handleCollision on two enemies left both at full health
C12_Witness ==
    /\ hist.op = "collide"
    /\ obj[hist.arg].type = "enemy"
    /\ obj[hist.arg2].type = "enemy"
    /\ hist.arg # hist.arg2
    /\ \A k \in {hist.arg, hist.arg2} : obj[k].alive /\ obj[k].hp = obj[k].maxhp
    /\ ~obj[hist.arg].atCentre

\* C13: when the player and a live pickup collide, the collection effect is
\* applied once and the pickup is destroyed; a pickup of type scrap or
\* crystal adds exactly 1 to the matching run counter
C13_PickupCounted ==
    [][(CollideStep({"pickup", "player"})
        /\ obj[OfType(Cur, hist'.arg, hist'.arg2, "pickup")].alive)
        => LET k == OfType(Cur, hist'.arg, hist'.arg2, "pickup")
           IN  /\ obj'[k].collected = obj[k].collected + 1
               /\ ~obj'[k].alive
               /\ obj[k].kind = "scrap"
                  => runStats' = [runStats EXCEPT !.scrap = @ + 1]
               /\ obj[k].kind = "crystal"
                  => runStats' = [runStats EXCEPT !.crystals = @ + 1]]_vars

\* this step is a call of Game.startGame (the only way out of the menus)
StartStep == state \in {"menu", "gameover"} /\ state' \notin {"menu", "gameover"}

\* the listed objects of the given type after the step
ListedNext(t) == {k \in {entities'[i] : i \in 1..Len(entities')} : obj'[k].type = t}

\* lives, score, run counters and wave after startGame, and the player, three
\* large asteroids and no enemy or pickup in a list without repetitions
FreshRun ==
    /\ lives' = StartLives
    /\ score' = 0
    /\ runStats' = [scrap |-> 0, crystals |-> 0]
    /\ wave' = 1
    /\ ListedNext("player") = {player'}
    /\ Cardinality(ListedNext("asteroid")) = 3
    /\ \A k \in ListedNext("asteroid") : obj'[k].kind = "large" /\ obj'[k].alive
    /\ ListedNext("enemy") = {}
    /\ ListedNext("pickup") = {}

\* C14 as amended: after startGame returns, lives = 3, score = 0, the run
\* counters are 0, wave = 1 and the list holds the player, 3 large asteroids
\* and no enemy; on a later start the state is playing and the list holds
\* nothing else; on the first start, where startGame runs the first frame
\* itself, the list also holds the one projectile of the player's auto-fire
\* and the state is paused when the p key is held
C14_StartGameResets ==
    [][StartStep
        => /\ FreshRun
           /\ IF loop = "idle"
              THEN /\ state' = IF "p" \in keys THEN "paused" ELSE "playing"
                   /\ Len(entities') = 5
                   /\ \E k \in ListedNext("projectile") : obj'[k].owner = player'
              ELSE /\ state' = "playing"
                   /\ Len(entities') = 4]_vars

\* C14 witness: the state after the first startGame, before any later frame
C14_Witness ==
    /\ state = "playing"
    /\ loop = "running"
    /\ used.frames = 0
    /\ wave = 1
    /\ Len(entities) = 5

\* C14 as stated: after startGame returns the state is playing and the list
\* holds exactly the player plus 3 large asteroids, whatever came before
C14_AsStated ==
    [][StartStep => (FreshRun /\ state' = "playing" /\ Len(entities') = 4)]_vars

-----------------------------------------------------------------------------
(* Waves: Game.isWaveComplete and Game.startNextWave called on the entity   *)
(* lists that the end of a frame's collision handling can leave.            *)

\* what a list holds beside the player: a projectile in flight, a loot
\* pickup, a small asteroid (alive, or dead and not yet spliced), a scout
Leftovers == {"shot", "scrap", "rock", "deadrock", "scout"}

MaxLeftovers == 2

MaxWave == 3

Leftover(id, what) ==
    CASE what = "shot" -> Projectile(id, 1, PlayerShotDamage, PlayerShotLifetime)
      [] what = "scrap" -> Pickup(id, "Pickup", "scrap")
      [] what = "rock" -> Asteroid(id, "small")
      [] what = "deadrock" -> [destroy(Asteroid(id, "small")) EXCEPT !.hp = 0]
      [] what = "scout" -> Enemy(id, "scout_saucer")

RECURSIVE WithLeftovers(_, _)
WithLeftovers(g, rest) ==
    IF rest = <<>> THEN g
    ELSE WithLeftovers(Spawn(g, LAMBDA n : Leftover(n, Head(rest))), Tail(rest))

\* wave 0 is the state inside startGame: the player alone; enemies and
\* their loot exist from wave 2 on
WaveScenes ==
    {WithLeftovers([Constructed EXCEPT !.state = "playing", !.wave = w,
                                       !.player = 1, !.entities = <<1>>,
                                       !.obj = (1 :> ScenePlayer(1, 0))], rest) :
        <<w, rest>> \in
            {x \in (0..MaxWave) \X UNION {[1..n -> Leftovers] : n \in 0..MaxLeftovers} :
                /\ x[1] = 0 => x[2] = <<>>
                /\ x[1] < 2 => \A i \in DOMAIN x[2] : x[2][i] \notin {"scrap", "scout"}}}

InitWave ==
    \E sc \in WaveScenes :
        /\ state = sc.state
        /\ score = sc.score
        /\ lives = sc.lives
        /\ wave = sc.wave
        /\ runStats = sc.runStats
        /\ playerData = sc.playerData
        /\ entities = sc.entities
        /\ obj = sc.obj
        /\ player = sc.player
        /\ keys = sc.keys
        /\ loop = "running"
        /\ used = Unused
        /\ hist = sc.hist

\* game.isWaveComplete()
CallIsWaveComplete ==
    /\ hist.calls < MaxCalls
    /\ Commit(Called(Cur, "isWaveComplete", 0, isWaveComplete(Cur)))
    /\ UNCHANGED <<loop, used>>

\* game.startNextWave(), called as startGame and update call it: on a list
\* that isWaveComplete accepts
CallStartNextWave ==
    /\ hist.calls < MaxCalls
    /\ isWaveComplete(Cur)
    /\ \E et \in EnemyTypes :
          \E g \in {startNextWave(Cur, [StartEnv EXCEPT !.etype = et])} :
              Commit(Called(g, "startNextWave", 0, FALSE))
    /\ UNCHANGED <<loop, used>>

NextWave ==
    \/ CallIsWaveComplete
    \/ CallStartNextWave

SpecWave == InitWave /\ [][NextWave]_vars

\* the entries that the step appended to the entity list, of the given type
Added(t) ==
    {i \in (Len(entities) + 1)..Len(entities') : obj'[entities'[i]].type = t}

\* C15: each call of startNextWave increases wave by exactly 1, removes
\* nothing and adds, for the new wave number w, exactly 2 + w large asteroids
\* and floor(w/2) enemies when w > 1, no enemy when w = 1
C15_WaveBatch ==
    [][Step("startNextWave")
        => /\ wave' = wave + 1
           /\ Len(entities') >= Len(entities)
           /\ SubSeq(entities', 1, Len(entities)) = entities
           /\ \A k \in DOMAIN obj : k \in DOMAIN obj' /\ obj'[k] = obj[k]
           /\ \A i \in (Len(entities) + 1)..Len(entities') :
                 /\ entities'[i] \notin DOMAIN obj
                 /\ \A j \in (Len(entities) + 1)..Len(entities') :
                       entities'[i] = entities'[j] => i = j
           /\ Cardinality(Added("asteroid")) = 2 + wave'
           /\ \A i \in Added("asteroid") :
                 obj'[entities'[i]].kind = "large" /\ obj'[entities'[i]].alive
           /\ Cardinality(Added("enemy")) = IF wave' > 1 THEN wave' \div 2 ELSE 0
           /\ Len(entities') - Len(entities)
              = Cardinality(Added("asteroid")) + Cardinality(Added("enemy"))]_vars

\* C15 witness: startNextWave has started wave 4, with two enemies listed
C15_Witness ==
    /\ hist.op = "startNextWave"
    /\ wave = 4
    /\ Cardinality({i \in DOMAIN entities : obj[entities[i]].type = "enemy"}) = 2
    /\ Cardinality({i \in DOMAIN entities : obj[entities[i]].type = "asteroid"}) = 6

\* C16: isWaveComplete returns true exactly when the entity list holds no
\* asteroid and no enemy, that is, when every listed entity is of type
\* player, projectile or pickup
C16_CompleteIffNoHazardListed ==
    hist.op = "isWaveComplete"
    => (hist.ret <=> ~\E i \in DOMAIN entities :
                        obj[entities[i]].type \in {"asteroid", "enemy"})

\* C16 witness: isWaveComplete returned true on a list of the player, a
\* projectile and a pickup
C16_Witness ==
    /\ hist.op = "isWaveComplete"
    /\ hist.ret
    /\ {obj[entities[i]].type : i \in DOMAIN entities} = {"player", "projectile", "pickup"}

\* this step is a frame whose update ran to its end
UpdateStep ==
    /\ used'.frames = used.frames + 1
    /\ state = "playing"
    /\ loop' = "running"

\* C17: if after a frame's collision handling every asteroid and enemy has
\* alive = false, startNextWave runs in that same frame: a frame that leaves
\* the wave number as it was leaves an alive asteroid or enemy
C17_AdvancesInSameFrame ==
    [][(UpdateStep /\ wave' = wave)
        => \E i \in DOMAIN entities' :
              /\ obj'[entities'[i]].type \in HazardTypes
              /\ obj'[entities'[i]].alive]_vars

-----------------------------------------------------------------------------
(* Weapons: one armed object, the clock (Date.now) advancing, and its fire, *)
(* canFire and update methods called in any order.  The holder is a Player  *)
(* as constructed (the heat-tracked weapon), a Player as startGame arms it  *)
(* (a Blaster), or an enemy with its Blaster or SpreadShot.                 *)

\* the armed objects: [list of objects, holder]
Armed ==
    {[objs |-> <<[Player(1) EXCEPT !.autoFire = a, !.fire = f]>>, holder |-> 1] :
        a \in BOOLEAN, f \in BOOLEAN}
    \cup {[objs |-> <<[ScenePlayer(1, 0) EXCEPT !.fire = f,
                                                !.sinceFired = BlasterFireRate]>>,
           holder |-> 1] : f \in BOOLEAN}
    \cup {[objs |-> <<ScenePlayer(1, 0), Enemy(2, k)>>, holder |-> 2] :
            k \in EnemyTypes}

InitWeapon ==
    \E a \in Armed :
        /\ state = "playing"
        /\ score = 0
        /\ lives = StartLives
        /\ wave = 1
        /\ runStats = [scrap |-> 0, crystals |-> 0]
        /\ playerData = [scrap |-> 0, crystals |-> 0]
        /\ entities = [i \in 1..Len(a.objs) |-> i]
        /\ obj = a.objs
        /\ player = 1
        /\ keys = {}
        /\ loop = "idle"
        /\ used = Unused
        /\ hist = [NoHist EXCEPT !.arg2 = a.holder]

\* the armed object of the run
Holder == hist.arg2

\* the record of the last call, without a count: the runs are bounded by
\* the objects that the shots take, the saturating clock and the heat
Noted(g, op, arg, ret) ==
    [g EXCEPT !.hist.op = op, !.hist.arg = arg, !.hist.ret = ret]

\* the intervals by which the clock advances between calls: half the
\* holder's fire rate and the fire rate
WeaponTimes == {obj[Holder].fireRate \div 2, obj[Holder].fireRate}

\* Date.now() advances by dt
WeaponWait(dt) ==
    /\ Commit(Noted(Elapse(Cur, dt), "wait", dt, FALSE))
    /\ UNCHANGED <<loop, used>>

\* player.fire(game) / weapon.fire(game)
CallFire ==
    \E g \in {IF obj[Holder].cls = "Player" THEN PlayerFire(Cur, Holder)
                  ELSE WeaponFire(Cur, Holder)} :
        /\ Commit(Noted(g, "fire", 0, FALSE))
        /\ UNCHANGED <<loop, used>>

\* weapon.canFire()
CallCanFire ==
    /\ ~obj[Holder].heated
    /\ Commit(Noted(Cur, "canFire", 0, canFire(obj[Holder])))
    /\ UNCHANGED <<loop, used>>

\* holder.update(deltaTime, game)
CallUpdateHolder(deltaTime) ==
    \E r \in Ranges :
          \E g \in {entityUpdate(Cur, Holder, deltaTime, [StartEnv EXCEPT !.range = r])} :
              /\ ~g.crashed
              /\ Commit(Noted(g, "update", deltaTime, FALSE))
              /\ UNCHANGED <<loop, used>>

NextWeapon ==
    \/ \E dt \in WeaponTimes : WeaponWait(dt)
    \/ CallFire
    \/ CallCanFire
    \/ CallUpdateHolder(FrameMs)

SpecWeapon == InitWeapon /\ [][NextWeapon]_vars

\* the number of projectiles that the step added to the entity list
Shots == Len(entities') - Len(entities)

\* the heat that updateWeapon's cooling leaves of heat h after deltaTime
Cooled(h, deltaTime) ==
    IF h > 0 THEN Max(0, h - (CooldownRate * deltaTime) \div 1000) ELSE h

\* C18: for the Player's heat-tracked weapon (heatPerShot 15, maxHeat 100):
\* each successful shot adds heatPerShot (in update, the manual shot before
\* the cooling and the auto-fire shot after it); whenever heat >= maxHeat the
\* overheated flag is set, which takes 7 shots; the flag stays set until
\* the heat has decayed below 30% of maxHeat; while it is set no fire
\* attempt produces a projectile; heat is never below 0
C18_HeatLatch ==
    [][obj[Holder].heated
        => LET e  == obj[Holder]
               e1 == obj'[Holder]
               m  == IF /\ hist'.op = "update" /\ e.fire /\ ~e.overheated
                        /\ e.sinceFired >= e.fireRate
                     THEN 1 ELSE 0
               c  == IF hist'.op = "update"
                     THEN Cooled(e.heat + HeatPerShot * m, hist'.arg) ELSE e.heat
           IN  /\ Shots \in {0, 1}
               /\ Shots >= m
               /\ e1.heat = c + HeatPerShot * (Shots - m)
               /\ e1.heat >= 0
               /\ e1.heat >= MaxHeat => e1.overheated
               /\ e1.overheated => Len(entities') >= 8
               /\ (e.overheated /\ hist'.op # "update") => (e1.overheated /\ Shots = 0)
               /\ (e.overheated /\ hist'.op = "update")
                  => /\ e1.overheated <=> 10 * c >= 3 * MaxHeat
                     /\ e1.overheated => Shots = 0
               /\ (~e.overheated /\ e1.overheated) => Shots = 1]_vars

\* C18 witness: seven shots in a row have overheated the weapon, and a fire
\* attempt on the overheated weapon has just returned
C18_Witness ==
    /\ obj[Holder].heated
    /\ obj[Holder].overheated
    /\ obj[Holder].heat = 7 * HeatPerShot
    /\ Len(entities) = 8
    /\ hist.op = "fire"
    /\ obj[Holder].sinceFired = obj[Holder].fireRate

\* the projectiles of one volley of the holder's weapon
Volley(e) == IF e.cls = "Player" THEN 1 ELSE enemyData(e.kind).shots

\* C19: canFire is true exactly when the time since the last shot is at
\* least the fire rate; a fire call stamps the last-fired time only when it
\* fires; so a weapon fires only when at least fireRate ms have passed since
\* its last shot, and one call of fire or update (a frame), with manual fire
\* and auto-fire both active too, spawns at most one volley
C19_FireRateGate ==
    [][LET e  == obj[Holder]
           e1 == obj'[Holder]
       IN  /\ hist'.op = "canFire" => (hist'.ret <=> e.sinceFired >= e.fireRate)
           /\ Shots \in {0, Volley(e)}
           /\ Shots > 0 => (e.sinceFired >= e.fireRate /\ e1.sinceFired = 0)
           /\ (Shots = 0 /\ hist'.op # "wait") => e1.sinceFired = e.sinceFired
           /\ (hist'.op = "fire" /\ e.sinceFired >= e.fireRate /\ ~e.overheated)
              => Shots = Volley(e)]_vars

\* C19 witness: an update of the player with manual fire and auto-fire both
\* active has spawned its one projectile
C19_Witness ==
    /\ hist.op = "update"
    /\ obj[Holder].cls = "Player"
    /\ obj[Holder].fire
    /\ obj[Holder].autoFire
    /\ obj[Holder].sinceFired = 0
    /\ Len(entities) = 2

-----------------------------------------------------------------------------
(* Shots: the initial velocity of the projectiles of a volley.  An owner    *)
(* has a velocity and a rotation; a velocity of a projectile is kept as     *)
(* [angle, speed, drift], standing for fromAngle(angle, speed) + drift.     *)

\* velocities of an owner (x, y), within every owner's maxVelocity
Velocities == {<<0, 0>>, <<60, 0>>, <<-40, 20>>}

\* rotations of an owner
Rotations == {"east", "south", "west"}

\* options.speed of the projectiles: Player.fire, and the projectileSpeed of
\* the scout's and hunter's Blaster and the marauder's SpreadShot
shotSpeed(e) ==
    CASE e.cls = "Player" -> 400
      [] e.kind = "hunter_drone" -> 300
      [] e.kind = "marauder_frigate" -> 250
      [] OTHER -> 200

\* Projectile.constructor, the initial velocity: fromAngle(rotation, speed),
\* plus half the owner's velocity when there is an owner with a physics
\* component
ProjectileVelocity(rotation, speed, owner, ownerVelocity) ==
    [angle |-> rotation, speed |-> speed,
     drift |-> IF owner # 0 /\ obj[owner].radius # 0
               THEN <<ownerVelocity[1] \div 2, ownerVelocity[2] \div 2>>
               ELSE <<0, 0>>]

\* the angle of projectile i of n: the owner's rotation for a single shot,
\* baseAngle - spread / 2 + angleStep * i for a spread
ShotAngle(rotation, i, n) == IF n = 1 THEN <<rotation, 0>> ELSE <<rotation, i>>

InitShot ==
    \E a \in Armed, v \in Velocities, r \in Rotations :
        /\ state = "playing"
        /\ score = 0
        /\ lives = StartLives
        /\ wave = 1
        /\ runStats = [scrap |-> 0, crystals |-> 0]
        /\ playerData = [scrap |-> 0, crystals |-> 0]
        /\ entities = [i \in 1..Len(a.objs) |-> i]
        /\ obj = a.objs
        /\ player = 1
        /\ keys = {}
        /\ loop = "idle"
        /\ used = Unused
        /\ hist = [vel |-> v, rot |-> r, shots |-> <<>>]
                  @@ [NoHist EXCEPT !.arg2 = a.holder]

\* player.fire(game) / weapon.fire(game): the projectiles of the volley get
\* their velocities in the constructor
ShotFire ==
    \E g \in {IF obj[Holder].cls = "Player" THEN PlayerFire(Cur, Holder)
                ELSE WeaponFire(Cur, Holder)} :
        /\ Commit([Noted(g, "fire", 0, FALSE) EXCEPT !.hist.shots =
                [i \in 1..(Len(g.entities) - Len(entities)) |->
                    ProjectileVelocity(
                        ShotAngle(hist.rot, i, Len(g.entities) - Len(entities)),
                        shotSpeed(obj[Holder]), Holder, hist.vel)]])
        /\ UNCHANGED <<loop, used>>

\* Date.now() advances by the holder's fire rate
ShotWait ==
    /\ Commit(Noted(Elapse(Cur, obj[Holder].fireRate), "wait", 0, FALSE))
    /\ UNCHANGED <<loop, used>>

\* the physics and the ai (or the input) give the owner another velocity
\* and rotation
ShotSteer(v, r) ==
    /\ Commit([Noted(Cur, "steer", 0, FALSE) EXCEPT !.hist.vel = v, !.hist.rot = r])
    /\ UNCHANGED <<loop, used>>

NextShot ==
    \/ ShotFire
    \/ ShotWait
    \/ \E v \in Velocities, r \in Rotations : ShotSteer(v, r)

SpecShot == InitShot /\ [][NextShot]_vars

\* C20: a projectile fired by the player starts with velocity = facing
\* direction x projectile speed + half the player's velocity; a projectile
\* fired by an enemy weapon starts with velocity = facing direction x
\* projectile speed, with no contribution from the enemy's velocity
C20_ShotVelocity ==
    (hist.op = "fire" /\ hist.shots # <<>>)
    => \A i \in DOMAIN hist.shots :
          /\ hist.shots[i].angle[1] = hist.rot
          /\ hist.shots[i].speed = shotSpeed(obj[Holder])
          /\ hist.shots[i].drift =
                IF obj[Holder].cls = "Player"
                THEN <<hist.vel[1] \div 2, hist.vel[2] \div 2>>
                ELSE <<0, 0>>

-----------------------------------------------------------------------------
(* Flight: a scene whose projectiles have been in flight for a while, and   *)
(* the frames that follow.                                                  *)

\* the ages of a projectile in flight: fresh, or one or two frames from the
\* end of its lifetime
Ages == {0, PlayerShotLifetime - 2 * FrameMs, PlayerShotLifetime - FrameMs}

InitFlight ==
    \E sc \in {Scene(FALSE, <<"asteroid", "large">>, FALSE)}, a \in Ages, b \in Ages :
        /\ state = sc.state
        /\ score = sc.score
        /\ lives = sc.lives
        /\ wave = sc.wave
        /\ runStats = sc.runStats
        /\ playerData = sc.playerData
        /\ entities = sc.entities
        /\ obj = [k \in DOMAIN sc.obj |->
                    IF sc.obj[k].type # "projectile" THEN sc.obj[k]
                    ELSE [sc.obj[k] EXCEPT !.age = IF k = 3 THEN a ELSE b]]
        /\ player = sc.player
        /\ keys = sc.keys
        /\ loop = "running"
        /\ used = Unused
        /\ hist = sc.hist

SpecFlight == InitFlight /\ [][Next]_vars

\* the listed projectiles of a list
Flying(list, store) ==
    {i \in DOMAIN list : store[list[i]].type = "projectile"}

\* C21: a projectile is destroyed in the update in which its age reaches its
\* lifetime or which finds it outside the canvas margin, and is removed from
\* the list in that same pass: after an update every listed projectile is
\* younger than its lifetime, and the projectiles that were listed before
\* it and still are number those that were alive and young enough, less
\* those found outside
C21_ProjectileExpires ==
    [][UpdateStep
        => \E deltaTime \in DeltaTimes :
           LET old   == {i \in Flying(entities', obj') : obj'[entities'[i]].age > 0}
               young == {i \in Flying(entities, obj) :
                            /\ obj[entities[i]].alive
                            /\ obj[entities[i]].age + deltaTime < obj[entities[i]].lifetime}
               left  == used'.exits - used.exits
           IN  /\ \A i \in Flying(entities', obj') :
                     obj'[entities'[i]].age < obj'[entities'[i]].lifetime
               /\ \A i \in old : obj'[entities'[i]].age >= deltaTime
               /\ Cardinality(old) <= Cardinality(Flying(entities, obj)) - left
               /\ Cardinality(old) <= Cardinality(young)
               /\ Cardinality(old) >= Cardinality(young) - left]_vars

\* C21 witness: after the first frame, in which no projectile was outside,
\* one of the two projectiles of the scene is left: the other has expired
C21_Witness ==
    /\ state = "playing"
    /\ used.frames = 1
    /\ used.exits = 0
    /\ Cardinality({i \in Flying(entities, obj) : obj[entities[i]].age > 0}) = 1
    /\ \E i \in Flying(entities, obj) :
          obj[entities[i]].age = PlayerShotLifetime - FrameMs


\* C23: at the start of every frame, before any entity update applies
\* forces, the accumulated force of every listed entity is (0, 0): every
\* force is applied by an entity to itself inside its own update, and
\* updateEntity, which follows that update directly, resets it
C23_NoForceAtFrameStart ==
    \A i \in DOMAIN entities : ~obj[entities[i]].pushed

C23_Witness ==
    /\ state = "playing"
    /\ used.frames >= 1
    /\ "w" \in keys
    /\ \E i \in DOMAIN entities :
          /\ entities[i] = player
          /\ obj[player].alive
          /\ obj[player].moving
          /\ ~obj[player].pushed


-----------------------------------------------------------------------------
(* The physics engine on numbers.  A JavaScript number is modelled as an   *)
(* exact rational [n, d] in lowest terms with d > 0 (the rounding of the   *)
(* floating-point operations is not modelled); a square root is taken only *)
(* of squares of rationals.                                                *)

Abs(k) == IF k < 0 THEN -k ELSE k

RECURSIVE GCD(_, _)
GCD(a, b) == IF b = 0 THEN a ELSE GCD(b, a % b)

\* the rational n / d in lowest terms
Q(n, d) ==
    LET g == GCD(Abs(n), Abs(d))
    IN  IF d < 0 THEN [n |-> (0 - n) \div g, d |-> (0 - d) \div g]
        ELSE [n |-> n \div g, d |-> d \div g]

N(k) == [n |-> k, d |-> 1]
Zero == N(0)

Plus(a, b) == Q(a.n * b.d + b.n * a.d, a.d * b.d)
Minus(a, b) == Q(a.n * b.d - b.n * a.d, a.d * b.d)
Times(a, b) == Q(a.n * b.n, a.d * b.d)
Over(a, b) == Q(a.n * b.d, a.d * b.n)
Less(a, b) == a.n * b.d < b.n * a.d
LessEq(a, b) == a.n * b.d <= b.n * a.d

\* the integer part of the square root of k > 0, by Newton's iteration
RECURSIVE Newton(_, _)
Newton(k, x) ==
    IF (x + k \div x) \div 2 >= x THEN x ELSE Newton(k, (x + k \div x) \div 2)

FloorRoot(k) == IF k = 0 THEN 0 ELSE Newton(k, k)

IsSquare(k) == FloorRoot(k) * FloorRoot(k) = k

\* Math.sqrt of the square of a rational
Root(a) ==
    Q(CHOOSE r \in {FloorRoot(a.n)} : r * r = a.n,
      CHOOSE r \in {FloorRoot(a.d)} : r * r = a.d)

\* the vector has a rational magnitude
Exact(vector) ==
    /\ IsSquare(Plus(Times(vector.x, vector.x), Times(vector.y, vector.y)).n)
    /\ IsSquare(Plus(Times(vector.x, vector.x), Times(vector.y, vector.y)).d)

\* a vector {x, y} of integers
V(x, y) == [x |-> N(x), y |-> N(y)]

\* Utils.vector.magnitude
magnitude(vector) ==
    Root(Plus(Times(vector.x, vector.x), Times(vector.y, vector.y)))

\* Utils.vector.normalize
normalize(vector) ==
    IF magnitude(vector) = Zero THEN V(0, 0)
    ELSE [x |-> Over(vector.x, magnitude(vector)),
          y |-> Over(vector.y, magnitude(vector))]

\* the canvas, which is the engine's width and height
Width == 800
Height == 600

\* PhysicsEngine.constructor: this.damping
EngineDamping == Q(99, 100)

\* PhysicsEngine.createPhysicsComponent; an option that is missing or 0
\* gets its default (`||`), maxVelocity 0 stands for null, and screenWrap is
\* on unless the option is false
createPhysicsComponent(options) ==
    [mass            |-> IF options.mass = Zero THEN N(1) ELSE options.mass,
     velocity        |-> V(0, 0),
     acceleration    |-> V(0, 0),
     force           |-> V(0, 0),
     damping         |-> IF options.damping = Zero THEN Q(99, 100)
                         ELSE options.damping,
     maxVelocity     |-> options.maxVelocity,
     collisionRadius |-> options.collisionRadius,
     restitution     |-> IF options.restitution = Zero THEN Q(8, 10)
                         ELSE options.restitution,
     screenWrap      |-> options.screenWrap]

\* mutant of wrapPosition: a coordinate that left re-enters by as much as it
\* left (modulo the extent)
wrapPositionAround(x, y, width, height) ==
    [x |-> IF Less(x, Zero) THEN Plus(x, width)
           ELSE IF Less(width, x) THEN Minus(x, width) ELSE x,
     y |-> IF Less(y, Zero) THEN Plus(y, height)
           ELSE IF Less(height, y) THEN Minus(y, height) ELSE y]

\* Utils.wrapPosition
wrapPosition(x, y, width, height) ==
    [x |-> IF Less(x, Zero) THEN width
           ELSE IF Less(width, x) THEN Zero ELSE x,
     y |-> IF Less(y, Zero) THEN height
           ELSE IF Less(height, y) THEN Zero ELSE y]

\* mutant of dampingOf: the engine's damping for every body
dampingOfEngine(physics) == EngineDamping

\* PhysicsEngine.updateEntity: `physics.damping || this.damping`
dampingOf(physics) ==
    IF physics.damping # Zero THEN physics.damping ELSE EngineDamping

\* PhysicsEngine.updateEntity on numbers.  A body is [x, y, physics], its
\* physics <<>> (no component) or <<component>>
PhysicsUpdateEntity(entity, deltaTime) ==
    IF entity.physics = <<>> THEN entity
    ELSE
    LET physics == entity.physics[1]
        dt      == Q(deltaTime, 1000)
        acc     == [x |-> Over(physics.force.x, physics.mass),
                    y |-> Over(physics.force.y, physics.mass)]
        damping == dampingOf(physics)
        v1      == [x |-> Times(Plus(physics.velocity.x, Times(acc.x, dt)), damping),
                    y |-> Times(Plus(physics.velocity.y, Times(acc.y, dt)), damping)]
        v2      == IF physics.maxVelocity # Zero
                      /\ Less(physics.maxVelocity, magnitude(v1))
                   THEN [x |-> Times(normalize(v1).x, physics.maxVelocity),
                         y |-> Times(normalize(v1).y, physics.maxVelocity)]
                   ELSE v1
        x1      == Plus(entity.x, Times(v2.x, dt))
        y1      == Plus(entity.y, Times(v2.y, dt))
        wrapped == IF physics.screenWrap
                   THEN wrapPosition(x1, y1, N(Width), N(Height))
                   ELSE [x |-> x1, y |-> y1]
    IN  [entity EXCEPT
            !.x = wrapped.x, !.y = wrapped.y,
            !.physics = <<[physics EXCEPT !.acceleration = acc,
                                          !.velocity = v2,
                                          !.force = V(0, 0)]>>]


\* Utils.distance
distance(x1, y1, x2, y2) ==
    magnitude([x |-> Minus(x2, x1), y |-> Minus(y2, y1)])

\* mutant of circleCollision: touching circles do not collide
circleCollisionStrict(x1, y1, r1, x2, y2, r2) ==
    Less(distance(x1, y1, x2, y2), Plus(r1, r2))

\* Utils.circleCollision
circleCollision(x1, y1, r1, x2, y2, r2) ==
    LessEq(distance(x1, y1, x2, y2), Plus(r1, r2))

\* PhysicsEngine.checkCollision on numbers
PhysicsCheckCollision(entity1, entity2) ==
    IF entity1.physics = <<>> \/ entity2.physics = <<>> THEN FALSE
    ELSE IF entity1.physics[1].collisionRadius = Zero
            \/ entity2.physics[1].collisionRadius = Zero THEN FALSE
    ELSE circleCollision(
            entity1.x, entity1.y, entity1.physics[1].collisionRadius,
            entity2.x, entity2.y, entity2.physics[1].collisionRadius)

\* `a || b` on numbers
OrElse(a, b) == IF a # Zero THEN a ELSE b

\* mutant of separating: the impulse is exchanged whatever the relative
\* velocity
separatingNever(velocityAlongNormal) == FALSE

\* PhysicsEngine.handleCollision: `velocityAlongNormal > 0`
separating(velocityAlongNormal) == Less(Zero, velocityAlongNormal)

\* mutant of applyImpulse: only the first body takes the impulse
applyImpulseOneSided(p1, p2, impulseX, impulseY) ==
    <<[p1 EXCEPT !.velocity.x = Minus(@, Times(impulseX, p2.mass)),
                 !.velocity.y = Minus(@, Times(impulseY, p2.mass))],
      p2>>

\* PhysicsEngine.handleCollision, "Apply impulse": the two components
\* afterwards
applyImpulse(p1, p2, impulseX, impulseY) ==
    <<[p1 EXCEPT !.velocity.x = Minus(@, Times(impulseX, p2.mass)),
                 !.velocity.y = Minus(@, Times(impulseY, p2.mass))],
      [p2 EXCEPT !.velocity.x = Plus(@, Times(impulseX, p1.mass)),
                 !.velocity.y = Plus(@, Times(impulseY, p1.mass))]>>

\* PhysicsEngine.handleCollision on numbers: the two bodies afterwards
PhysicsHandleCollision(entity1, entity2) ==
    IF ~PhysicsCheckCollision(entity1, entity2) THEN <<entity1, entity2>>
    ELSE
    LET p1   == entity1.physics[1]
        p2   == entity2.physics[1]
        dx   == Minus(entity2.x, entity1.x)
        dy   == Minus(entity2.y, entity1.y)
        dist == magnitude([x |-> dx, y |-> dy])
    IN  IF dist = Zero THEN <<entity1, entity2>>
        ELSE
        LET nx      == Over(dx, dist)
            ny      == Over(dy, dist)
            overlap == Minus(Plus(p1.collisionRadius, p2.collisionRadius), dist)
            sep     == IF Less(Zero, overlap) THEN Over(overlap, N(2)) ELSE Zero
            a1      == [entity1 EXCEPT !.x = Minus(@, Times(nx, sep)),
                                       !.y = Minus(@, Times(ny, sep))]
            a2      == [entity2 EXCEPT !.x = Plus(@, Times(nx, sep)),
                                       !.y = Plus(@, Times(ny, sep))]
            rvx     == Minus(p2.velocity.x, p1.velocity.x)
            rvy     == Minus(p2.velocity.y, p1.velocity.y)
            velocityAlongNormal == Plus(Times(rvx, nx), Times(rvy, ny))
        IN  IF separating(velocityAlongNormal) THEN <<a1, a2>>
            ELSE
            LET r1 == OrElse(p1.restitution, Q(8, 10))
                r2 == OrElse(p2.restitution, Q(8, 10))
                restitution   == IF LessEq(r1, r2) THEN r1 ELSE r2
                impulseScalar == Times(Minus(Zero, Plus(N(1), restitution)),
                                       velocityAlongNormal)
                totalMass     == Plus(p1.mass, p2.mass)
                impulse       == Over(impulseScalar, totalMass)
                impulseX      == Times(impulse, nx)
                impulseY      == Times(impulse, ny)
                after         == applyImpulse(p1, p2, impulseX, impulseY)
            IN  <<[a1 EXCEPT !.physics = <<after[1]>>],
                  [a2 EXCEPT !.physics = <<after[2]>>]>>

\* PhysicsBehaviors.seek, the steering force before it is limited: the
\* desired velocity (towards the target at maximum speed) less the velocity
seekSteer(entity, desired, dist) ==
    LET maxSpeed == OrElse(entity.physics[1].maxVelocity, N(100))
    IN  [x |-> Minus(Times(Over(desired.x, dist), maxSpeed),
                     entity.physics[1].velocity.x),
         y |-> Minus(Times(Over(desired.y, dist), maxSpeed),
                     entity.physics[1].velocity.y)]

\* PhysicsBehaviors.seek: what it returns, [tag |-> "undefined"] for a
\* `return;` and the steering force otherwise
seek(entity, targetX, targetY, maxForce) ==
    IF entity.physics = <<>> THEN [tag |-> "undefined"]
    ELSE
    LET desired == [x |-> Minus(targetX, entity.x), y |-> Minus(targetY, entity.y)]
        dist    == magnitude(desired)
    IN  IF dist = Zero THEN [tag |-> "undefined"]
        ELSE
        LET steer    == seekSteer(entity, desired, dist)
            steerMag == magnitude(steer)
        IN  IF Less(maxForce, steerMag)
            THEN [tag |-> "vector",
                  x |-> Times(Over(steer.x, steerMag), maxForce),
                  y |-> Times(Over(steer.y, steerMag), maxForce)]
            ELSE [tag |-> "vector", x |-> steer.x, y |-> steer.y]

\* PhysicsBehaviors.flee: the negated seek force, null when seek returned
\* nothing
flee(entity, targetX, targetY, maxForce) ==
    LET seekForce == seek(entity, targetX, targetY, maxForce)
    IN  IF seekForce.tag = "vector"
        THEN [tag |-> "vector", x |-> Minus(Zero, seekForce.x),
                                y |-> Minus(Zero, seekForce.y)]
        ELSE [tag |-> "null"]


-----------------------------------------------------------------------------
(* The physics engine called on bodies.  hist holds the two bodies a and  *)
(* b the methods are called on, the last call (op, its arguments) and what *)
(* it left: the bodies afterwards (out) and its return value (ret).        *)

\* the physics options of the constructors (0: the option is not given), and
\* of bodies a caller of createPhysicsComponent may build
PhysicsOptions(kind) ==
    CASE kind = "asteroid" ->
            [mass |-> N(3), damping |-> N(1), maxVelocity |-> N(80),
             collisionRadius |-> N(40), restitution |-> Zero, screenWrap |-> TRUE]
      [] kind = "player" ->
            [mass |-> N(1), damping |-> Q(98, 100), maxVelocity |-> N(300),
             collisionRadius |-> N(12), restitution |-> Zero, screenWrap |-> TRUE]
      [] kind = "hunter_drone" ->
            [mass |-> Q(8, 10), damping |-> Q(98, 100), maxVelocity |-> N(100),
             collisionRadius |-> N(18), restitution |-> Zero, screenWrap |-> TRUE]
      [] kind = "projectile" ->
            [mass |-> Q(1, 10), damping |-> Zero, maxVelocity |-> Zero,
             collisionRadius |-> N(3), restitution |-> Zero, screenWrap |-> FALSE]
      [] kind = "puck" ->
            [mass |-> N(1), damping |-> N(1), maxVelocity |-> Zero,
             collisionRadius |-> N(10), restitution |-> N(1), screenWrap |-> TRUE]
      [] kind = "probe" ->
            [mass |-> N(1), damping |-> N(1), maxVelocity |-> Zero,
             collisionRadius |-> N(10), restitution |-> N(1), screenWrap |-> FALSE]
      [] OTHER ->
            [mass |-> Zero, damping |-> Zero, maxVelocity |-> Zero,
             collisionRadius |-> Zero, restitution |-> Zero, screenWrap |-> TRUE]

BodyKinds == {"asteroid", "player", "hunter_drone", "projectile", "puck",
              "probe", "bare", "none"}

\* Entity.constructor at (x, y) with the kind's physics options ("none": no
\* options.physics), then given a velocity and an accumulated force
Body(kind, at, velocity, force) ==
    [x |-> N(at[1]), y |-> N(at[2]),
     physics |-> IF kind = "none" THEN <<>>
                 ELSE <<[createPhysicsComponent(PhysicsOptions(kind)) EXCEPT
                            !.velocity = V(velocity[1], velocity[2]),
                            !.force = V(force[1], force[2])]>>]

Places == {<<-1, 300>>, <<300, -1>>, <<0, 0>>, <<1, 599>>, <<400, 300>>, <<740, 540>>,
           <<799, 300>>, <<Width, Height>>, <<Width + 1, Height + 1>>}

Drifts == {<<0, 0>>, <<60, 0>>, <<-60, 0>>, <<0, 60>>, <<-30, -40>>, <<360, 0>>}

Forces == {<<0, 0>>, <<200, 0>>}

\* where b lies relative to a
Offsets == {<<0, 0>>, <<6, 8>>, <<12, 16>>, <<20, 0>>, <<21, 0>>, <<-48, -64>>,
            <<80, 0>>}

StepTimes == {0, 500, 1000}

Targets == {<<0, 0>>, <<100, 0>>, <<0, -50>>, <<-30, -40>>}

MaxForces == {Zero, Q(1, 2), N(1), N(150)}

\* one body of every kind, place, velocity and force (a force along the
\* velocity's axis), and a resting asteroid 500 px away
SoloScenes ==
    {[a |-> Body(k, p, v, f), b |-> Body("asteroid", <<p[1] + 300, p[2] + 400>>, <<0, 0>>, <<0, 0>>)] :
        k \in BodyKinds, p \in Places,
        v \in {w \in Drifts : w[2] = 0}, f \in Forces}
    \cup
    {[a |-> Body(k, p, v, <<0, 0>>), b |-> Body("asteroid", <<p[1] + 300, p[2] + 400>>, <<0, 0>>, <<0, 0>>)] :
        k \in BodyKinds, p \in Places, v \in Drifts}

\* two bodies near each other
PairScenes ==
    {[a |-> Body(k, <<400, 300>>, v, <<0, 0>>),
      b |-> Body(l, <<400 + o[1], 300 + o[2]>>, w, <<0, 0>>)] :
        k \in BodyKinds \ {"player", "hunter_drone"},
        l \in BodyKinds \ {"player", "hunter_drone", "probe"},
        v \in {<<0, 0>>, <<60, 0>>, <<-30, -40>>},
        w \in {<<0, 0>>, <<-60, 0>>, <<60, 0>>}, o \in Offsets}

NoCall == [op |-> "none", deltaTime |-> 0, target |-> <<0, 0>>, maxForce |-> Zero,
           ret |-> [tag |-> "undefined"]]

InitPhysics ==
    \E sc \in SoloScenes \cup PairScenes :
        /\ state = "playing"
        /\ score = 0
        /\ lives = StartLives
        /\ wave = 1
        /\ runStats = [scrap |-> 0, crystals |-> 0]
        /\ playerData = [scrap |-> 0, crystals |-> 0]
        /\ entities = <<>>
        /\ obj = <<>>
        /\ player = 0
        /\ keys = {}
        /\ loop = "idle"
        /\ used = Unused
        /\ hist = [a |-> sc.a, b |-> sc.b, out |-> <<sc.a, sc.b>>] @@ NoCall

\* no call has been made on the bodies of the scene (a behaviour makes one)
Idle == hist.op = "none"

\* a call on the bodies of the scene: what it leaves and what it returns
Physics(call, out) ==
    /\ hist' = [a |-> hist.a, b |-> hist.b, out |-> out] @@ call @@ NoCall
    /\ UNCHANGED <<state, score, lives, wave, runStats, playerData, entities,
                   obj, player, keys, loop, used>>

\* physics.updateEntity(a, deltaTime)
CallUpdateEntity(deltaTime) ==
    /\ Idle
    /\ IF hist.a.physics = <<>> THEN TRUE
       ELSE IF hist.a.physics[1].maxVelocity = Zero THEN TRUE
       ELSE Exact(hist.a.physics[1].velocity)
    /\ Physics([op |-> "updateEntity", deltaTime |-> deltaTime],
               <<PhysicsUpdateEntity(hist.a, deltaTime), hist.b>>)

\* Utils.wrapPosition(a.x, a.y, width, height)
CallWrapPosition ==
    /\ Idle
    /\ Physics([op |-> "wrapPosition",
                ret |-> [tag |-> "vector"]
                        @@ wrapPosition(hist.a.x, hist.a.y, N(Width), N(Height))],
               <<hist.a, hist.b>>)

\* physics.checkCollision(a, b)
CallCheckCollision ==
    /\ Idle
    /\ Physics([op |-> "checkCollision",
                ret |-> [tag |-> "boolean",
                         value |-> PhysicsCheckCollision(hist.a, hist.b)]],
               <<hist.a, hist.b>>)

\* physics.handleCollision(a, b)
CallHandleCollision ==
    /\ Idle
    /\ Physics([op |-> "handleCollision"], PhysicsHandleCollision(hist.a, hist.b))

\* the steering force of a towards a target has a rational magnitude
Steers(target) ==
    IF hist.a.physics = <<>> \/ target = <<0, 0>> THEN TRUE
    ELSE Exact(seekSteer(hist.a, V(target[1], target[2]),
                         magnitude(V(target[1], target[2]))))

\* PhysicsBehaviors.seek(a, a.x + target.x, a.y + target.y, maxForce)
CallSeek(target, maxForce) ==
    /\ Idle
    /\ Steers(target)
    /\ Physics([op |-> "seek", target |-> target, maxForce |-> maxForce,
                ret |-> seek(hist.a, Plus(hist.a.x, N(target[1])),
                             Plus(hist.a.y, N(target[2])), maxForce)],
               <<hist.a, hist.b>>)

\* PhysicsBehaviors.flee(a, a.x + target.x, a.y + target.y, maxForce)
CallFlee(target, maxForce) ==
    /\ Idle
    /\ Steers(target)
    /\ Physics([op |-> "flee", target |-> target, maxForce |-> maxForce,
                ret |-> flee(hist.a, Plus(hist.a.x, N(target[1])),
                             Plus(hist.a.y, N(target[2])), maxForce)],
               <<hist.a, hist.b>>)

NextPhysics ==
    \/ \E deltaTime \in StepTimes : CallUpdateEntity(deltaTime)
    \/ CallWrapPosition
    \/ CallCheckCollision
    \/ CallHandleCollision
    \/ \E target \in Targets, maxForce \in MaxForces : CallSeek(target, maxForce)
    \/ \E target \in Targets, maxForce \in MaxForces : CallFlee(target, maxForce)

SpecPhysics == InitPhysics /\ [][NextPhysics]_vars


\* the position of a advanced by velocity * dt
Advanced(a, deltaTime) ==
    [x |-> Plus(a.x, Times(a.physics[1].velocity.x, Q(deltaTime, 1000))),
     y |-> Plus(a.y, Times(a.physics[1].velocity.y, Q(deltaTime, 1000)))]

\* the point lies in [0, width] x [0, height]
OnScreen(p) ==
    /\ LessEq(Zero, p.x) /\ LessEq(p.x, N(Width))
    /\ LessEq(Zero, p.y) /\ LessEq(p.y, N(Height))

\* a body with zero force, damping 1 and no maximum velocity
Coasting(a) ==
    /\ a.physics # <<>>
    /\ a.physics[1].force = V(0, 0)
    /\ a.physics[1].damping = N(1)
    /\ a.physics[1].maxVelocity = Zero

\* C24 as stated: for every entity with a physics component, one integration
\* step with zero accumulated force, damping = 1 and no max-speed cap leaves
\* the velocity unchanged and advances the position by exactly velocity * dt
C24_AsStated ==
    (hist.op = "updateEntity" /\ Coasting(hist.a))
        => /\ hist.out[1].physics[1].velocity = hist.a.physics[1].velocity
           /\ hist.out[1].x = Advanced(hist.a, hist.deltaTime).x
           /\ hist.out[1].y = Advanced(hist.a, hist.deltaTime).y

\* C24: one integration step with zero accumulated force, damping = 1 and no
\* max-speed cap leaves the velocity unchanged; it advances the position by
\* exactly velocity * dt when screen-wrap is off or the advanced position is
\* inside [0, width] x [0, height]; with screen-wrap on, a coordinate that
\* is advanced below 0 becomes the extent and one advanced beyond the extent
\* becomes 0
C24_CoastingStep ==
    (hist.op = "updateEntity" /\ Coasting(hist.a))
        => LET to == Advanced(hist.a, hist.deltaTime)
               at == hist.out[1]
           IN  /\ at.physics[1].velocity = hist.a.physics[1].velocity
               /\ (~hist.a.physics[1].screenWrap \/ OnScreen(to))
                     => at.x = to.x /\ at.y = to.y
               /\ hist.a.physics[1].screenWrap
                     => /\ Less(to.x, Zero) => at.x = N(Width)
                        /\ Less(N(Width), to.x) => at.x = Zero
                        /\ Less(to.y, Zero) => at.y = N(Height)
                        /\ Less(N(Height), to.y) => at.y = Zero
                        /\ (LessEq(Zero, to.x) /\ LessEq(to.x, N(Width)))
                              => at.x = to.x
                        /\ (LessEq(Zero, to.y) /\ LessEq(to.y, N(Height)))
                              => at.y = to.y

C24_Witness ==
    /\ hist.op = "updateEntity"
    /\ Coasting(hist.a)
    /\ hist.deltaTime = 500
    /\ hist.a.physics[1].velocity = V(-30, -40)
    /\ hist.a.x = N(400)
    /\ hist.out[1].x = N(385)
    /\ hist.out[1].y = N(280)

\* C25: screen wrapping maps a coordinate beyond the far edge (x > width) to
\* 0 and a coordinate before the near edge (x < 0) to width, symmetrically
\* for y, and leaves every coordinate inside [0, width] x [0, height]
\* unchanged
C25_WrapPosition ==
    hist.op = "wrapPosition"
        => /\ Less(N(Width), hist.a.x) => hist.ret.x = Zero
           /\ Less(hist.a.x, Zero) => hist.ret.x = N(Width)
           /\ Less(N(Height), hist.a.y) => hist.ret.y = Zero
           /\ Less(hist.a.y, Zero) => hist.ret.y = N(Height)
           /\ (LessEq(Zero, hist.a.x) /\ LessEq(hist.a.x, N(Width)))
                 => hist.ret.x = hist.a.x
           /\ (LessEq(Zero, hist.a.y) /\ LessEq(hist.a.y, N(Height)))
                 => hist.ret.y = hist.a.y

C25_Witness ==
    /\ hist.op = "wrapPosition"
    /\ hist.a.x = N(Width + 1)
    /\ hist.a.y = N(Height + 1)
    /\ hist.ret.x = Zero
    /\ hist.ret.y = Zero

\* C26: after any integration step of an entity with screen-wrap enabled,
\* its position lies in the half-open box [0, width) x [0, height)
C26_WrappedIntoHalfOpenBox ==
    (hist.op = "updateEntity" /\ hist.a.physics # <<>>
        /\ hist.a.physics[1].screenWrap)
        => /\ LessEq(Zero, hist.out[1].x) /\ Less(hist.out[1].x, N(Width))
           /\ LessEq(Zero, hist.out[1].y) /\ Less(hist.out[1].y, N(Height))


\* the collision radius of a body (0: none)
Radius(a) == IF a.physics = <<>> THEN Zero ELSE a.physics[1].collisionRadius

\* the squared distance between the centres of the two bodies
Apart2(a, b) ==
    Plus(Times(Minus(b.x, a.x), Minus(b.x, a.x)),
         Times(Minus(b.y, a.y), Minus(b.y, a.y)))

\* the distance between the centres is at most the sum of the radii
Within(a, b) ==
    LessEq(Apart2(a, b),
           Times(Plus(Radius(a), Radius(b)), Plus(Radius(a), Radius(b))))

\* C27: checkCollision(a, b) is true if and only if both entities have a
\* physics component with a nonzero collision radius and the distance
\* between their centres is <= the sum of the two radii; the result is the
\* same for (b, a)
C27_CheckCollision ==
    hist.op = "checkCollision"
        => /\ hist.ret.value
                <=> /\ hist.a.physics # <<>> /\ hist.b.physics # <<>>
                    /\ Radius(hist.a) # Zero /\ Radius(hist.b) # Zero
                    /\ Within(hist.a, hist.b)
           /\ PhysicsCheckCollision(hist.b, hist.a) = hist.ret.value

C27_Witness ==
    /\ hist.op = "checkCollision"
    /\ hist.ret.value
    /\ Radius(hist.a) = N(10)
    /\ Radius(hist.b) = N(10)
    /\ Apart2(hist.a, hist.b) = N(400)


\* the velocity of a body
Velocity(a) == a.physics[1].velocity

\* the relative velocity of b against a along the line of centres from a to
\* b, times the distance: negative when the bodies approach
Closing(a, b) ==
    Plus(Times(Minus(Velocity(b).x, Velocity(a).x), Minus(b.x, a.x)),
         Times(Minus(Velocity(b).y, Velocity(a).y), Minus(b.y, a.y)))

\* C28: for two overlapping, approaching bodies of equal mass and
\* restitution 1, collision resolution leaves the sum of the two velocity
\* vectors unchanged (total momentum is conserved)
C28_MomentumConserved ==
    (/\ hist.op = "handleCollision"
     /\ PhysicsCheckCollision(hist.a, hist.b)
     /\ Less(Closing(hist.a, hist.b), Zero)
     /\ hist.a.physics[1].mass = hist.b.physics[1].mass
     /\ hist.a.physics[1].restitution = N(1)
     /\ hist.b.physics[1].restitution = N(1))
        => /\ Plus(Velocity(hist.out[1]).x, Velocity(hist.out[2]).x)
                = Plus(Velocity(hist.a).x, Velocity(hist.b).x)
           /\ Plus(Velocity(hist.out[1]).y, Velocity(hist.out[2]).y)
                = Plus(Velocity(hist.a).y, Velocity(hist.b).y)

C28_Witness ==
    /\ hist.op = "handleCollision"
    /\ PhysicsCheckCollision(hist.a, hist.b)
    /\ hist.a.physics[1].mass = hist.b.physics[1].mass
    /\ hist.a.physics[1].restitution = N(1)
    /\ hist.b.physics[1].restitution = N(1)
    /\ Apart2(hist.a, hist.b) = N(100)
    /\ Velocity(hist.a) = V(60, 0)
    /\ Velocity(hist.b) = V(-60, 0)
    /\ Velocity(hist.out[1]) # Velocity(hist.a)
    /\ Apart2(hist.out[1], hist.out[2]) = N(400)

\* C29: collision resolution skips its two undefined or unnecessary cases:
\* when the two centres coincide (distance exactly 0) neither position nor
\* velocity of either body changes, and when the bodies are already
\* separating (relative velocity along the normal > 0) neither velocity
\* changes
C29_SkippedCases ==
    (hist.op = "handleCollision" /\ PhysicsCheckCollision(hist.a, hist.b))
        => /\ Apart2(hist.a, hist.b) = Zero => hist.out = <<hist.a, hist.b>>
           /\ Less(Zero, Closing(hist.a, hist.b))
                 => /\ Velocity(hist.out[1]) = Velocity(hist.a)
                    /\ Velocity(hist.out[2]) = Velocity(hist.b)

C29_Witness ==
    /\ hist.op = "handleCollision"
    /\ PhysicsCheckCollision(hist.a, hist.b)
    /\ Less(Zero, Closing(hist.a, hist.b))
    /\ Velocity(hist.a) # Velocity(hist.b)
    /\ Apart2(hist.a, hist.b) = N(100)
    /\ Apart2(hist.out[1], hist.out[2]) # N(100)
    /\ Velocity(hist.out[1]) = Velocity(hist.a)
    /\ Velocity(hist.out[2]) = Velocity(hist.b)


\* C30: seek and flee return, for every entity with a physics component,
\* every target position (including the entity's own position) and every
\* maxForce >= 0, a force vector whose magnitude is <= maxForce, and they
\* change no physics state of the entity
C30_SteeringForce ==
    (hist.op \in {"seek", "flee"} /\ hist.a.physics # <<>>)
        => /\ hist.ret.tag = "vector"
           /\ LessEq(Plus(Times(hist.ret.x, hist.ret.x),
                          Times(hist.ret.y, hist.ret.y)),
                     Times(hist.maxForce, hist.maxForce))
           /\ hist.out = <<hist.a, hist.b>>


-----------------------------------------------------------------------------
(* Asteroid.destroy with the places of the fragments.  hist holds the      *)
(* asteroid's position, the call and the fragments it returned.            *)

\* (cos, sin) of the angles 2 * PI * i / count + Utils.random(-0.5, 0.5)
\* (for a medium asteroid PI * i + ..., which is count = 2) that are
\* rational: the base angle turned by 0 or by +-0.28 for base angles 0 and
\* PI, and by +-0.12, +-0.24 or +-0.40 for the base angles 2 PI / 3 and
\* 4 PI / 3
Directions(i, count) ==
    CASE i = 0 ->
            {[x |-> N(1), y |-> Zero], [x |-> Q(24, 25), y |-> Q(7, 25)],
             [x |-> Q(24, 25), y |-> Q(-7, 25)]}
      [] i = 1 /\ count = 2 ->
            {[x |-> N(-1), y |-> Zero], [x |-> Q(-24, 25), y |-> Q(7, 25)],
             [x |-> Q(-24, 25), y |-> Q(-7, 25)]}
      [] i = 1 /\ count = 3 ->
            {[x |-> Q(-3, 5), y |-> Q(4, 5)], [x |-> Q(-7, 25), y |-> Q(24, 25)],
             [x |-> Q(-4, 5), y |-> Q(3, 5)]}
      [] OTHER ->
            {[x |-> Q(-3, 5), y |-> Q(-4, 5)], [x |-> Q(-7, 25), y |-> Q(-24, 25)],
             [x |-> Q(-4, 5), y |-> Q(-3, 5)]}

\* mutant of fragmentAt: the fragment is placed a full radius away
fragmentAtRadius(x, y, radius, direction) ==
    [x |-> Plus(x, Times(direction.x, N(radius))),
     y |-> Plus(y, Times(direction.y, N(radius)))]

\* Asteroid.createFragments, the place of one fragment: distance =
\* radius * 0.5 from (x, y) along (cos(angle), sin(angle))
fragmentAt(x, y, radius, direction) ==
    [x |-> Plus(x, Times(direction.x, Times(N(radius), Q(1, 2)))),
     y |-> Plus(y, Times(direction.y, Times(N(radius), Q(1, 2))))]

\* Asteroid.createFragments of the asteroid e at (x, y): the size and place
\* of each `new Asteroid(x, y, size)`; directions[i + 1] is the direction of
\* fragment i
createFragmentsAt(e, x, y, directions) ==
    [k \in DOMAIN createFragments(e, Len(directions)) |->
        [size |-> createFragments(e, Len(directions))[k]]
        @@ fragmentAt(x, y, e.radius, directions[k])]

Origins == {<<400, 300>>, <<0, 0>>, <<790, 10>>}

InitFragments ==
    \E size \in {"large", "medium", "small"}, at \in Origins :
        /\ state = "playing"
        /\ score = 0
        /\ lives = StartLives
        /\ wave = 1
        /\ runStats = [scrap |-> 0, crystals |-> 0]
        /\ playerData = [scrap |-> 0, crystals |-> 0]
        /\ entities = <<1>>
        /\ obj = (1 :> Asteroid(1, size))
        /\ player = 0
        /\ keys = {}
        /\ loop = "idle"
        /\ used = Unused
        /\ hist = [x |-> N(at[1]), y |-> N(at[2]), op |-> "none", fragments |-> <<>>]

\* asteroid.destroy(): `count` is Utils.randomInt(2, 3) for a large
\* asteroid and 2 for a medium one, d0, d1 and d2 the directions drawn
CallDestroy(count, d0, d1, d2) ==
    /\ hist.op = "none"
    /\ obj' = [obj EXCEPT ![1] = destroy(@)]
    /\ hist' = [hist EXCEPT
            !.op = "destroy",
            !.fragments = createFragmentsAt(obj[1], hist.x, hist.y,
                            IF count = 3 THEN <<d0, d1, d2>> ELSE <<d0, d1>>)]
    /\ UNCHANGED <<state, score, lives, wave, runStats, playerData, entities,
                   player, keys, loop, used>>

NextFragments ==
    \E n \in 2..3 :
        \E count \in {IF obj[1].kind = "large" THEN n ELSE 2} :
            \E d0 \in Directions(0, count), d1 \in Directions(1, count),
               d2 \in Directions(2, count) :
                CallDestroy(count, d0, d1, d2)

SpecFragments == InitFragments /\ [][NextFragments]_vars

\* the squared distance of a fragment from the asteroid's position
Off2(f) ==
    Plus(Times(Minus(f.x, hist.x), Minus(f.x, hist.x)),
         Times(Minus(f.y, hist.y), Minus(f.y, hist.y)))

\* C22: destroying a large asteroid yields 2 or 3 medium asteroids and
\* destroying a medium one yields exactly 2 small ones, each placed at
\* distance radius * 0.5 from the parent's position; destroying a small
\* asteroid yields no fragments
C22_Fragments ==
    hist.op = "destroy"
        => LET fs == hist.fragments
           IN  /\ obj[1].kind = "large"
                     => /\ Len(fs) \in {2, 3}
                        /\ \A k \in DOMAIN fs : fs[k].size = "medium"
               /\ obj[1].kind = "medium"
                     => /\ Len(fs) = 2
                        /\ \A k \in DOMAIN fs : fs[k].size = "small"
               /\ obj[1].kind = "small" => fs = <<>>
               /\ \A k \in DOMAIN fs :
                     Off2(fs[k]) = Times(Q(obj[1].radius, 2), Q(obj[1].radius, 2))

C22_Witness ==
    /\ hist.op = "destroy"
    /\ obj[1].kind = "large"
    /\ ~obj[1].alive
    /\ Len(hist.fragments) = 3
    /\ hist.x = N(400)
    /\ hist.fragments[2].x = N(388)
    /\ hist.fragments[2].y = N(316)


-----------------------------------------------------------------------------
\* the enemies that were alive and listed before a frame (so that the
\* frame's update pass ran their update) and are listed after it
Raiders == {id \in Listed(Cur) : obj[id].cls = "Enemy" /\ obj[id].alive}

\* C31: after every Enemy.update the enemy's target is the live player
\* entity: whenever the previous target was null or dead the target is
\* re-acquired, and an enemy never holds, aims at or steers by a target
\* whose alive flag is false.  (A target that dies in the collision
\* handling that follows the update in the same frame is allowed for.)
C31_TargetIsLivePlayer ==
    [][UpdateStep
        => \A id \in Raiders :
              /\ obj'[id].target = player
              /\ player # 0
              /\ obj[player].alive]_vars


\* the objects without the time that has passed since their Date.now()
\* stamps (the stamps themselves are fields, the time since them is not)
Stamped(store) ==
    [k \in DOMAIN store |-> [store[k] EXCEPT !.sinceFired = 0, !.sinceDamage = 0]]

\* a requestAnimationFrame callback ran
TickStep == used'.frames = used.frames + 1

\* C32: a frame tick runs the simulation update only when the state is
\* playing; in the states menu, paused and gameover a tick leaves the entity
\* list, every entity's state, score, lives, wave and the run counters
\* unchanged
C32_TickOutsidePlaying ==
    [][(TickStep /\ state # "playing")
        => /\ state' = state
           /\ entities' = entities
           /\ Stamped(obj') = Stamped(obj)
           /\ score' = score
           /\ lives' = lives
           /\ wave' = wave
           /\ runStats' = runStats
           /\ playerData' = playerData]_vars

C32_Witness ==
    /\ state = "paused"
    /\ used.frames = 2
    /\ Cardinality({i \in Flying(entities, obj) :
                        obj[entities[i]].age = FrameMs}) = 2


-----------------------------------------------------------------------------
\* what Game.loadPlayerData finds in the storage: the default data or the
\* totals of earlier sessions
Saved == {[scrap |-> 0, crystals |-> 0], [scrap |-> 7, crystals |-> 2]}

\* Game.constructor with the stored progression
InitRun ==
    \E data \in Saved :
        /\ state = "menu"
        /\ score = 0
        /\ lives = StartLives
        /\ wave = 0
        /\ runStats = [scrap |-> 0, crystals |-> 0]
        /\ playerData = data
        /\ entities = <<>>
        /\ obj = <<>>
        /\ player = 0
        /\ keys = {}
        /\ loop = "idle"
        /\ used = Unused
        /\ hist = NoHist

SpecRun == InitRun /\ [][Next]_vars

\* endGame ran in the step (startGame sets the count of the run back to 0)
EndStep == hist'.ended > hist.ended

-----------------------------------------------------------------------------
(* Raid: a hunter drone and the player, each one hit from its death, with   *)
(* the player's projectiles in flight, and the frames that follow.          *)

InitRaid ==
    \E sc \in {Scene(TRUE, <<"enemy", "hunter_drone">>, TRUE)} :
        /\ state = sc.state
        /\ score = sc.score
        /\ lives = sc.lives
        /\ wave = sc.wave
        /\ runStats = sc.runStats
        /\ playerData = sc.playerData
        /\ entities = sc.entities
        /\ obj = sc.obj
        /\ player = sc.player
        /\ keys = sc.keys
        /\ loop = "running"
        /\ used = Unused
        /\ hist = sc.hist

SpecRaid == InitRaid /\ [][Next]_vars

\* the update passes a frame can run in the current state: the list as the
\* pass finds it (from) and the game as the pass leaves it (to)
Pass(g, deltaTime, env) ==
    [from |-> g.entities, to |-> updateFrom(g, Len(g.entities), deltaTime, env)]

Passes ==
    {Pass(handlePlayerInput(Elapse(Cur, dt)), dt,
          [StartEnv EXCEPT !.gone = gn, !.range = r, !.magnet = m]) :
        dt \in DeltaTimes, gn \in Gone(Cur, MaxExits - used.exits),
        r \in RangesOf(Cur), m \in Magnets(Cur)}

Backwards(list) == [k \in 1..Len(list) |-> list[Len(list) + 1 - k]]

\* the entities of a pass that were alive when their own update returned, in
\* list order
Survivors(p) ==
    LET kept == SelectSeq(Backwards(p.to.visited), LAMBDA v : v.alive)
    IN  [k \in 1..Len(kept) |-> kept[k].id]

\* every entity of the list is updated once, in turn from the last; those
\* dead after their own update, and no others, are gone from the list; what
\* the pass inserted stands behind the survivors and was not updated
Regular(p) ==
    /\ [k \in 1..Len(p.to.visited) |-> p.to.visited[k].id] = Backwards(p.from)
    /\ Len(p.to.entities) >= Len(Survivors(p))
    /\ SubSeq(p.to.entities, 1, Len(Survivors(p))) = Survivors(p)
    /\ \A k \in 1..Len(Survivors(p)) : p.to.obj[p.to.entities[k]].alive

ShotsOf(g, owner) ==
    {i \in 1..Len(g.entities) :
        g.obj[g.entities[i]].type = "projectile" /\ g.obj[g.entities[i]].owner = owner}

\* C35: only alive entities are updated: an entity destroyed during
\* collision handling runs no further update, so a destroyed enemy never
\* fires another projectile and a destroyed entity applies no further force
C35_OnlyAliveUpdated ==
    (state = "playing" /\ loop = "running")
        => \A p \in Passes :
              /\ \A k \in 1..Len(p.to.visited) : obj[p.to.visited[k].id].alive
              /\ \A id \in OfClass(Cur, "Enemy") :
                    ~obj[id].alive
                        => Cardinality(ShotsOf(p.to, id)) <= Cardinality(ShotsOf(Cur, id))


-----------------------------------------------------------------------------
(* A barrage: a started session in which nothing touches anything, so that  *)
(* the player (auto-fire is on after startGame) fires in every update that  *)
(* its fire rate allows.  The frames keep coming as in a siege.             *)

\* Game.gameLoop(timestamp) in a barrage
BarrageFrame ==
    /\ loop = "running"
    /\ \E dt \in DeltaTimes, gn \in Gone(Cur, MaxExits) :
          \E g \in {gameLoop(Cur, dt, [StartEnv EXCEPT !.gone = gn])} :
              /\ Commit(g)
              /\ loop' = IF g.crashed THEN "dead" ELSE "running"
    /\ used' = [used EXCEPT !.frames = (@ + 1) % (MaxFrames + 1)]

SpecBarrage == InitSiege /\ [][BarrageFrame]_vars /\ WF_used(FrameDue)

\* C36: in a session started with startGame the player's weapon is
\* heat-gated as well: firing at every opportunity without cooling
\* eventually sets the overheated flag and blocks further shots until the
\* heat has fallen below 30% of the maximum
C36_BarrageOverheats ==
    <>(player # 0 /\ obj[player].overheated)


\* the drops of a kind that the player collects in this step
Collected(kind) ==
    {id \in Listed(Cur) :
        /\ obj[id].type = "pickup"
        /\ obj[id].kind = kind
        /\ obj[id].alive
        /\ id \in DOMAIN obj'
        /\ obj'[id].collected = obj[id].collected + 1}

\* C37: pickups dropped by a destroyed enemy (scrap, crystal) credit the run
\* when the player collects them: each collected drop increases the run's
\* scrap or crystal counter by 1 according to its kind
C37_DropsCredited ==
    [][/\ runStats'.scrap = runStats.scrap + Cardinality(Collected("scrap"))
       /\ runStats'.crystals = runStats.crystals + Cardinality(Collected("crystal"))]_vars


\* the listed enemies of a kind that have a target
Chasers(kind) ==
    {id \in Listed(Cur) : obj[id].type = "enemy" /\ obj[id].kind = kind /\ obj[id].target # 0}

\* C38: no relative placement of an enemy and its target makes the enemy's
\* ai step fail: with a hunter or a marauder in the list, at distance 0 from
\* its target or elsewhere, the frame finishes and the next frame is
\* scheduled
C38_AiStepCompletes ==
    [][(/\ TickStep
        /\ state = "playing"
        /\ Chasers("hunter_drone") \cup Chasers("marauder_frigate") # {})
        => loop' = "running"]_vars


\* the asteroids and enemies that lose health in this step
Struck ==
    {id \in Listed(Cur) :
        /\ obj[id].type \in {"asteroid", "enemy"}
        /\ id \in DOMAIN obj'
        /\ obj'[id].hp < obj[id].hp}

\* the projectiles, alive before this step, that it destroys
Spent ==
    {id \in Listed(Cur) :
        /\ obj[id].type = "projectile"
        /\ obj[id].alive
        /\ id \in DOMAIN obj' => ~obj'[id].alive}

\* C39: a projectile deals damage to at most one target: once it has hit a
\* target and been destroyed it takes part in no further collision handling,
\* even when it overlaps several hazards in the same frame; so a frame
\* damages no more asteroids and enemies than it destroys projectiles
C39_OneTargetPerShot ==
    [][UpdateStep => Cardinality(Struck) <= Cardinality(Spent)]_vars


\* C40: while the state is playing, a pause-toggle input (the 'p' key flag)
\* sampled by a frame always moves the state to paused and is consumed,
\* whether or not the player entity is currently alive (of the frames that
\* run to their end)
C40_PauseKeyTaken ==
    [][(UpdateStep /\ "p" \in keys)
        => (state' = "paused" /\ "p" \notin keys')]_vars

====
